---------------------------- MODULE Spec2Model ----------------------------
(***************************************************************************)
(* Model of the composable engine of theflow/finestflow.                   *)
(*                                                                         *)
(*   Spec       the execution lifecycle of Composable.__call__ over a      *)
(*              small tree of composables (src/theflow/base.py 536-579,    *)
(*              590-602, 618-625, 684-699, 729-756)                        *)
(*   SpecField  the field descriptors Param and Node on one instance       *)
(*              (src/theflow/base.py 114-195, 276-348)                     *)
(***************************************************************************)
EXTENDS Integers, Sequences, FiniteSets, TLC

\* ------------------------------------------------------------------ bounds
\* field reads and child invocations in one behaviour
MaxOps == 6
\* top-level calls made by the environment
MaxCalls == 2
\* objects created by field operations (defaults excluded)
MaxObj == 2
\* entries of a declared middleware list
MaxMw == 4
\* instances of a composition graph that is traversed
MaxRing == 3
PipeCalls == 3
MaxSeq == 3
MaxTasks == 3
MaxPool == 2
MaxThreads == 2
MaxProcs == 2
\* frames the interpreter allows before it raises RecursionError
RecursionLimit == 6
MaxActive == 3

None == "none"

\* ------------------------------------------------------------ the instances
\* P is a composable with the sub-unit fields a and b; a is given to the
\* constructor (instance A), b has no default and is left unset.  A has the
\* sub-unit field g, given to its constructor (instance G).  B is a composable
\* constructed on its own, available for assignment to P.b afterwards.
Inst == {"P", "A", "B", "G"}
FieldNames == {"a", "b", "g"}

\* Composable._ff_nodes: the sorted list of declared sub-unit fields
ff_nodes(i) ==
  CASE i = "P" -> <<"a", "b">>
    [] i = "A" -> <<"g">>
    [] OTHER -> <<>>

NodeSet(i) == {ff_nodes(i)[k] : k \in 1..Len(ff_nodes(i))}

\* keys of run keyword overrides and the value a one-shot override carries
Keys == {"k"}
TempVal == "t"
Unset == "-"
\* the value a persisted override carries
KeepVal == "p"

\* errors: AttributeError is raised by Node.__get__ on an unset field without
\* default; E1 and E2 are raised by a computation body or a middleware stage
AttributeError == "AttributeError"
BodyErr == {"E1", "E2"}

NoCalls == [f \in FieldNames |-> 0]
NoKwargs == [k \in Keys |-> Unset]

\* the run-state Composable.__init__ gives a new instance
FreshObj(ctx, cfg, nodes) ==
  [in_run |-> FALSE, prefix |-> "", name |-> "", run_id |-> "",
   called |-> NoCalls, temp |-> NoKwargs, run |-> NoKwargs,
   ctx |-> ctx, cfg |-> cfg, nodes |-> nodes]

NoNodes == [f \in FieldNames |-> None]

VARIABLES
  o,        \* the instances: run-state, handles and sub-unit map of each
  store,    \* the context stores, by handle
  stack,    \* active calls, outermost first
  exc,      \* the exception in flight, or None
  ops,      \* body operations done in the current top-level call
  ncalls,   \* top-level calls made
  outcome,  \* how the last top-level call ended
  fin,      \* the instance whose call ended in the last step, or None
  log,      \* the invocations of the current top-level call, in order
  raised,   \* the last error a body raised, and the calls active then
  ffparams, \* __ff_params__ of the instance whose fields are exercised
  ffnodes,  \* its __ff_nodes__
  ffdepends,\* its __ff_depends__: field -> dependency -> recorded id
  nid,      \* the highest object id handed out so far
  last,     \* the last field operation and what it did
  prev,     \* per computed field: what its previous read saw and returned
  cont,     \* the content of the object each dependency holds
  wrote,    \* per field without dependency list: the value last written, if kept
  mw,       \* an instance's middleware chain and the progress of a call on it
  td,       \* a type definition: the declaration and what became of it
  cy,       \* a traversal of a composition graph: frames, phase and result
  pl,       \* a tree of pipelines: prefixes, context, active calls, last result
  sq,       \* a sequential composite: its units and the progress of a call on it
  cc,      \* a concurrent composite: its units and the progress of a call on it
  cp,      \* composites built from three units, and their outputs
  pf,      \* a process-pool fan-out: tasks, workers, results and records
  th,      \* threads using one in-memory context store
  pr,      \* worker processes using one context store
  nh,      \* two values and their structural digests
  pi,      \* a pipeline under construction: flags, registered steps, last assignment
  fl,      \* an instance with a strict-typed and a refresh-on-set value field
  it,      \* an instance under introspection: its fields, and the last description or report
  ac       \* the calls active on one root instance, and its run-state

callvars == <<o, store, stack, exc, ops, ncalls, outcome, fin, log, raised>>
fieldvars == <<ffparams, ffnodes, ffdepends, nid, last, prev, cont, wrote>>
auxvars == <<mw, td, cy, pl, sq, cc, cp, pf, th, pr, nh, pi, fl, it, ac>>
vars == <<callvars, fieldvars, auxvars>>


\* ------------------------------------------------------- paths and names
\* Composable.abs_path
abs_path(x) ==
  IF x.prefix = "." THEN "." \o x.name ELSE x.prefix \o "." \o x.name

\* every invocation of a field's sub-unit under the bare field name
child_name_same(f, n) == f

\* the name _prepare_child assigns: name, or name[n] once the name was counted
child_name(f, n) ==
  IF n = 0 THEN f ELSE f \o "[" \o ToString(n) \o "]"

\* -------------------------------------------------------- context store
\* a store holds the run identifier and the scopes opened by path
EmptyStore == [run_id |-> "", scopes |-> {}]

clear_all(s) == EmptyStore

ctx_set_run_id(s, id) == [s EXCEPT !.run_id = id]

create_local_context(s, path) == [s EXCEPT !.scopes = @ \cup {path}]

\* Config.run_id of the config handle
config_run_id(cfg) == "run-" \o cfg

\* ---------------------------------------------- sub-unit reads and stamping
Ok(h) == [h |-> h, err |-> None]

RECURSIVE NodeGet(_, _, _)
RECURSIVE prepare_child(_, _, _, _)
RECURSIVE set_context(_, _, _)
RECURSIVE set_context_nodes(_, _, _, _)

\* Node.__get__ of a sub-unit field that has no default, no dependency list and
\* is cached: AttributeError when unset, else stamp the child and return it
NodeGet(h, p, f) ==
  IF h[p].nodes[f] = None
  THEN [h |-> h, val |-> None, err |-> AttributeError]
  ELSE LET r == prepare_child(h, p, h[p].nodes[f], f)
       IN [h |-> r.h, val |-> h[p].nodes[f], err |-> r.err]

\* Composable._prepare_child
prepare_child(h, p, c, f) ==
  IF ~h[p].in_run
  THEN Ok(h)
  ELSE LET h1 == [h EXCEPT ![c].prefix = h[p].prefix \o "." \o h[p].name,
                           ![c].name = child_name(f, h[p].called[f]),
                           ![p].called[f] = @ + 1]
       IN set_context(h1, c, h1[p].ctx)

\* Composable._set_context: the handle is stored, then handed to every sub-unit
set_context(h, c, x) ==
  set_context_nodes([h EXCEPT ![c].ctx = x], c, x, 1)

\* the loop of _set_context over _ff_nodes, from position k; each of its two
\* getattr(self, node) is a read of the field
set_context_nodes(h, c, x, k) ==
  IF k > Len(ff_nodes(c))
  THEN Ok(h)
  ELSE LET r1 == NodeGet(h, c, ff_nodes(c)[k])
       IN IF r1.err # None
          THEN [h |-> r1.h, err |-> r1.err]
          ELSE LET r2 == NodeGet(r1.h, c, ff_nodes(c)[k])
               IN IF r2.err # None
                  THEN [h |-> r2.h, err |-> r2.err]
                  ELSE LET r3 == set_context(r2.h, r2.val, x)
                       IN IF r3.err # None
                          THEN r3
                          ELSE set_context_nodes(r3.h, c, x, k + 1)

\* Composable._make_composable for a value that is a composable already
make_composable(v) == v

\* ------------------------------------------------------------ run overrides
\* an override dict after unflatten_dict, in iteration order: a plain entry
\* name -> value, or a nested entry node -> dict
Plain(k) == [name |-> k, nested |-> FALSE, sub |-> <<>>]
Nested(f) == [name |-> f, nested |-> TRUE, sub |-> <<Plain("k")>>]

\* the _ff_run_kwargs a top-level caller may pass to instance i
Overrides(i) ==
  {<<>>, <<Plain("k")>>}
    \cup {<<Nested(f)>> : f \in NodeSet(i)}
    \cup {<<Plain("k"), Nested(f)>> : f \in NodeSet(i)}

RECURSIVE set_run_temp(_, _, _, _)

\* Composable.set_run(kwargs, temp=True), from entry k of the dict
set_run_temp(h, i, ov, k) ==
  IF k > Len(ov)
  THEN Ok(h)
  ELSE LET e == ov[k]
       IN IF e.nested /\ e.name \in NodeSet(i)
          THEN LET r == NodeGet(h, i, e.name)
               IN IF r.err # None
                  THEN [h |-> r.h, err |-> r.err]
                  ELSE LET rc == set_run_temp(r.h, r.val, e.sub, 1)
                       IN IF rc.err # None
                          THEN rc
                          ELSE set_run_temp(rc.h, i, ov, k + 1)
          ELSE set_run_temp([h EXCEPT ![i].temp[e.name] = TempVal], i, ov, k + 1)

RECURSIVE set_run_keep(_, _, _, _)
RECURSIVE set_run_keep_rest(_, _, _, _)
RECURSIVE set_run_keep_next(_, _, _, _)

\* Composable.set_run(kwargs, temp=False), from entry k of the dict
set_run_keep(h, i, ov, k) ==
  IF k > Len(ov)
  THEN Ok(h)
  ELSE IF ov[k].nested /\ ov[k].name \in NodeSet(i)
       THEN set_run_keep_rest(NodeGet(h, i, ov[k].name), i, ov, k)
       ELSE set_run_keep([h EXCEPT ![i].run[ov[k].name] = KeepVal], i, ov, k + 1)

\* line 751 after the read of the sub-unit, r: the sub-unit's set_run, then
\* the next entry
set_run_keep_rest(r, i, ov, k) ==
  IF r.err # None
  THEN [h |-> r.h, err |-> r.err]
  ELSE set_run_keep_next(set_run_keep(r.h, r.val, ov[k].sub, 1), i, ov, k)

set_run_keep_next(rc, i, ov, k) ==
  IF rc.err # None THEN rc ELSE set_run_keep(rc.h, i, ov, k + 1)

\* a call whose merge would let the persisted override win
merge_kwargs_keep_first(kw, run, temp) ==
  [k \in Keys |->
     IF run[k] # Unset THEN run[k]
     ELSE IF temp[k] # Unset THEN temp[k] ELSE kw[k]]

\* lines 557-561: kwargs.update(persisted), then kwargs.update(one-shot)
merge_kwargs(kw, run, temp) ==
  [k \in Keys |->
     IF temp[k] # Unset THEN temp[k]
     ELSE IF run[k] # Unset THEN run[k] ELSE kw[k]]

\* ------------------------------------------------------------ __call__
\* Composable.__call__ up to the try block (lines 538-561).  The instance was
\* constructed, so _ff_initializing exists and _initialize is not run again.
\* An error raised here leaves the call before the try/finally is entered.
\* lines 549-555: the root's administrative setup, then the scope of the path
call_root(r, st, i, root) ==
  [h |-> IF root
         THEN [r.h EXCEPT ![i].run_id = config_run_id(r.h[i].cfg)]
         ELSE r.h,
   st |-> IF root
          THEN [st EXCEPT ![r.h[i].ctx] =
                  create_local_context(
                    ctx_set_run_id(clear_all(@), config_run_id(r.h[i].cfg)),
                    abs_path(r.h[i]))]
          ELSE [st EXCEPT ![r.h[i].ctx] = create_local_context(@, abs_path(r.h[i]))],
   err |-> None, cleared |-> root,
   path |-> abs_path(r.h[i]), name |-> r.h[i].name,
   kwargs |-> merge_kwargs(NoKwargs, r.h[i].run, r.h[i].temp)]

\* what follows set_run: r is its result
call_after_set_run(r, st, i) ==
  IF r.err # None
  THEN [h |-> r.h, st |-> st, err |-> r.err, cleared |-> FALSE,
        path |-> "", name |-> "", kwargs |-> NoKwargs]
  ELSE call_root(r, st, i, r.h[i].prefix = "")

call_enter(h, st, i, ov) ==
  call_after_set_run(
    IF ov # <<>>
    THEN set_run_temp([h EXCEPT ![i].in_run = TRUE], i, ov, 1)
    ELSE Ok([h EXCEPT ![i].in_run = TRUE]),
    st, i)

\* the finally block of Composable.__call__ (lines 571-577)
cleanup(h, i) ==
  [h EXCEPT ![i].temp = NoKwargs,
            ![i].in_run = FALSE,
            ![i].prefix = "",
            ![i].name = "",
            ![i].run_id = "",
            ![i].called = NoCalls]

\* a call that would hand its caller another error than the one raised
reraise_other(e) == "RuntimeError"

\* except Exception as e: raise e from None
reraise(e) == e


\* ------------------------------------------------------------ the state
CtxHandles == {"xP", "xB"}

\* a call in its body: the instance, the reference its body holds (the last
\* sub-unit it read), and what the body did so far
Frame(i, cleared, kwargs) ==
  [inst |-> i,
   cleared |-> cleared,   \* this call cleared the store and set run_id
   kwargs |-> kwargs,     \* the keyword arguments the computation is given
   ref |-> None,          \* the sub-unit the body holds a reference to
   reff |-> None,         \* the field that reference was read from
   fresh |-> FALSE,       \* the reference was read and not invoked since
   inv |-> NoCalls,       \* invocations of each field's sub-unit so far
   extra |-> FALSE]       \* some invocation reused an already invoked reference

NoRaise == [err |-> None, insts |-> <<>>, cleaned |-> <<>>]
NoOutcome == [inst |-> None, kind |-> "none", err |-> None]

\* The state after construction, in the order G, A(g=G), B, P(a=A): each
\* _initialize hands the constructed instance's config and context to the
\* sub-units it already holds, so A and G carry P's handles; B keeps its own.
CallInit ==
  /\ o = [i \in Inst |->
           CASE i = "P" -> FreshObj("xP", "cP", [NoNodes EXCEPT !["a"] = "A"])
             [] i = "A" -> FreshObj("xP", "cP", [NoNodes EXCEPT !["g"] = "G"])
             [] i = "G" -> FreshObj("xP", "cP", NoNodes)
             [] i = "B" -> FreshObj("xB", "cB", NoNodes)]
  /\ store = [x \in CtxHandles |-> EmptyStore]
  /\ stack = <<>>
  /\ exc = None
  /\ ops = 0
  /\ ncalls = 0
  /\ outcome = NoOutcome
  /\ fin = None
  /\ log = <<>>
  /\ raised = NoRaise

Top == stack[Len(stack)]
Pop(st) == SubSeq(st, 1, Len(st) - 1)
StackInsts == [k \in 1..Len(stack) |-> stack[k].inst]

\* one record of the invocation log
LogEntry(i, r, f, idx, byRead, depth) ==
  [inst |-> i, path |-> r.path, name |-> r.name, field |-> f, idx |-> idx,
   byRead |-> byRead, depth |-> depth, cleared |-> r.cleared]

\* ------------------------------------------------------------ actions
\* the environment calls instance i, with one-shot overrides ov
TopEntered(i, r) ==
  /\ o' = r.h
  /\ store' = r.st
  /\ IF r.err # None
     THEN /\ stack' = <<>>
          /\ outcome' = [inst |-> i, kind |-> "error", err |-> r.err]
          /\ fin' = i
          /\ log' = <<>>
     ELSE /\ stack' = <<Frame(i, r.cleared, r.kwargs)>>
          /\ outcome' = [inst |-> i, kind |-> "running", err |-> None]
          /\ fin' = None
          /\ log' = <<LogEntry(i, r, None, 0, FALSE, 0)>>

TopCall(i, ov) ==
  /\ stack = <<>>
  /\ ncalls < MaxCalls
  /\ TopEntered(i, call_enter(o, store, i, ov))
  /\ ncalls' = ncalls + 1
  /\ ops' = ops
  /\ exc' = None
  /\ raised' = NoRaise
  /\ UNCHANGED <<fieldvars, auxvars>>

\* the body of the running call reads its sub-unit field f and keeps the value
HasRead(f, r) ==
  /\ o' = r.h
  /\ IF r.err # None
     THEN /\ exc' = r.err
          /\ raised' = [err |-> r.err, insts |-> StackInsts, cleaned |-> <<>>]
          /\ stack' = stack
     ELSE /\ exc' = None
          /\ raised' = raised
          /\ stack' = [stack EXCEPT ![Len(stack)].ref = r.val,
                                    ![Len(stack)].reff = f,
                                    ![Len(stack)].fresh = TRUE]

BodyRead(f) ==
  /\ stack # <<>> /\ exc = None /\ ops < MaxOps
  /\ f \in NodeSet(Top.inst)
  /\ HasRead(f, NodeGet(o, Top.inst, f))
  /\ ops' = ops + 1
  /\ fin' = None
  /\ UNCHANGED <<store, ncalls, outcome, log>>
  /\ UNCHANGED <<fieldvars, auxvars>>

\* the body invokes the sub-unit it holds a reference to
Invoked(c, r, caller) ==
  /\ o' = r.h
  /\ store' = r.st
  /\ IF r.err # None
     THEN /\ exc' = r.err
          /\ stack' = [stack EXCEPT ![Len(stack)] = caller]
          /\ log' = log
     ELSE /\ exc' = None
          /\ stack' = Append([stack EXCEPT ![Len(stack)] = caller],
                             Frame(c, r.cleared, r.kwargs))
          /\ log' = Append(log,
                           LogEntry(c, r, Top.reff, Top.inv[Top.reff],
                                    Top.fresh /\ ~Top.extra, Len(stack)))

BodyInvoke ==
  /\ stack # <<>> /\ exc = None /\ ops < MaxOps
  /\ Top.ref # None
  /\ Invoked(Top.ref, call_enter(o, store, Top.ref, <<>>),
             [Top EXCEPT !.fresh = FALSE,
                         !.inv[Top.reff] = @ + 1,
                         !.extra = @ \/ ~Top.fresh])
  /\ ops' = ops + 1
  /\ fin' = None
  /\ UNCHANGED <<ncalls, outcome, raised>>
  /\ UNCHANGED <<fieldvars, auxvars>>

\* the computation (or a middleware stage) of the running call raises e
BodyRaise(e) ==
  /\ stack # <<>> /\ exc = None
  /\ exc' = e
  /\ raised' = [err |-> e, insts |-> StackInsts, cleaned |-> <<>>]
  /\ fin' = None
  /\ UNCHANGED <<o, store, stack, ops, ncalls, outcome, log>>
  /\ UNCHANGED <<fieldvars, auxvars>>

\* the invocation log ends with the top-level call
Closed == log' = IF Len(stack) = 1 THEN <<>> ELSE log

\* the running call returns: finally, then the caller continues
BodyReturn ==
  /\ stack # <<>> /\ exc = None
  /\ o' = cleanup(o, Top.inst)
  /\ stack' = Pop(stack)
  /\ fin' = Top.inst
  /\ outcome' = IF Len(stack) = 1
                THEN [inst |-> Top.inst, kind |-> "ok", err |-> None]
                ELSE outcome
  /\ Closed
  /\ UNCHANGED <<store, exc, ops, ncalls, raised>>
  /\ UNCHANGED <<fieldvars, auxvars>>

\* an exception leaves the running call: finally, then it is raised again in
\* the caller, whose body lets it propagate
Unwind ==
  /\ stack # <<>> /\ exc # None
  /\ o' = cleanup(o, Top.inst)
  /\ stack' = Pop(stack)
  /\ fin' = Top.inst
  /\ raised' = IF raised.err # None
               THEN [raised EXCEPT !.cleaned = Append(@, Top.inst)]
               ELSE raised
  /\ IF Len(stack) = 1
     THEN /\ outcome' = [inst |-> Top.inst, kind |-> "error", err |-> reraise(exc)]
          /\ exc' = None
     ELSE /\ outcome' = outcome
          /\ exc' = reraise(exc)
  /\ Closed
  /\ UNCHANGED <<store, ops, ncalls>>
  /\ UNCHANGED <<fieldvars, auxvars>>

\* between calls the environment assigns B to P.b (Composable.__setattr__,
\* then Node.__set__)
Assign ==
  /\ stack = <<>>
  /\ o' = [o EXCEPT !["P"].nodes["b"] = make_composable("B")]
  /\ fin' = None
  /\ UNCHANGED <<store, stack, exc, ops, ncalls, outcome, log, raised>>
  /\ UNCHANGED <<fieldvars, auxvars>>

\* between calls the environment reads a sub-unit field
IdleRead(i, f) ==
  /\ stack = <<>> /\ ops < MaxOps
  /\ f \in NodeSet(i)
  /\ o' = NodeGet(o, i, f).h
  /\ ops' = ops + 1
  /\ fin' = None
  /\ UNCHANGED <<store, stack, exc, ncalls, outcome, log, raised>>
  /\ UNCHANGED <<fieldvars, auxvars>>

\* between calls the environment persists run overrides on instance i:
\* i.set_run(ov); an error of a routing read leaves what was set so far
SetRun(i, ov) ==
  /\ stack = <<>> /\ ops < MaxOps
  /\ ov # <<>>
  /\ o' = set_run_keep(o, i, ov, 1).h
  /\ ops' = ops + 1
  /\ fin' = None
  /\ UNCHANGED <<store, stack, exc, ncalls, outcome, log, raised>>
  /\ UNCHANGED <<fieldvars, auxvars>>

\* calls, with persisted run overrides set between them
RunNext ==
  \/ \E i \in {"P", "A"} : \E ov \in Overrides(i) : TopCall(i, ov)
  \/ \E f \in FieldNames : BodyRead(f)
  \/ BodyInvoke
  \/ \E e \in BodyErr : BodyRaise(e)
  \/ BodyReturn
  \/ Unwind
  \/ \E i \in {"P", "A"} : \E ov \in Overrides(i) : SetRun(i, ov)

Next ==
  \/ \E i \in {"P", "A"} : \E ov \in Overrides(i) : TopCall(i, ov)
  \/ \E f \in FieldNames : BodyRead(f)
  \/ BodyInvoke
  \/ \E e \in BodyErr : BodyRaise(e)
  \/ BodyReturn
  \/ Unwind
  \/ Assign
  \/ \E i \in {"P", "A"} : \E f \in FieldNames : IdleRead(i, f)


\* ================================================= the field descriptors
\* One instance, not inside a call, of a class that declares
\*   x, y : value fields with a static default
\*   c    : value field, depends_on [x, y], with a computation function
\*   u    : value field, no_cache, with a computation function
\*   n    : sub-unit field, depends_on [x], with a computation function
\*   un   : sub-unit field, no_cache, with a computation function
\*   s    : sub-unit field with a static default (a composable class)
ParamFields == {"x", "y", "c", "u"}
NodeFields == {"n", "un", "s"}
Fields == ParamFields \cup NodeFields

\* Param._depends_on, Node._depends_on
depends_on(f) ==
  CASE f = "c" -> <<"x", "y">>
    [] f = "n" -> <<"x">>
    [] OTHER -> <<>>

Targets(f) == {depends_on(f)[k] : k \in 1..Len(depends_on(f))}
Computed == {f \in Fields : depends_on(f) # <<>>}

\* Param._no_cache, Node._no_cache
no_cache(f) == f \in {"u", "un"}

\* Param._default_callback, Node._default_callback is set
has_callback(f) == f \in {"c", "u", "n", "un"}

\* Param._default, Node._default is not empty
has_default(f) == f \in {"x", "y", "s"}

\* a value: an object with its identity; a ComposableProxy remembers the
\* object it wraps
Absent == [id |-> 0, kind |-> "absent", orig |-> 0]
Val(id, kind) == [id |-> id, kind |-> kind, orig |-> 0]
ProxyOf(id, v) == [id |-> id, kind |-> "proxy", orig |-> v.id]

\* the objects the class holds as static defaults of x and y
default_value(f) ==
  CASE f = "x" -> Val(1, "val")
    [] f = "y" -> Val(2, "val")
    [] OTHER -> Absent

DefaultIds == {default_value(f).id : f \in {"x", "y"}}

\* what a computation function of field f may return: a value for a value
\* field; for a sub-unit field a composable or a plain callable
CallbackKinds(f) == IF f \in NodeFields THEN {"comp", "raw"} ELSE {"val"}

\* the ids of the objects alive: a new object never shares its id with one
\* of these, and may reuse the id of an object that is gone
LiveIds ==
  DefaultIds
    \cup {ffparams[f].id : f \in {g \in ParamFields : ffparams[g] # Absent}}
    \cup {ffnodes[f].id : f \in {g \in NodeFields : ffnodes[g] # Absent}}
    \cup {ffnodes[f].orig : f \in {g \in NodeFields : ffnodes[g].kind = "proxy"}}

FirstId == Cardinality(DefaultIds) + 1
NewIds ==
  (IF nid < MaxObj + Cardinality(DefaultIds) THEN {nid + 1} ELSE {})
    \cup ((FirstId..nid) \ LiveIds)

\* id(getattr(obj, target)) for a target that is a cached value field with a
\* static default: the stored object, else the default object
cur_id(p, t) == IF p[t] = Absent THEN default_value(t).id ELSE p[t].id

\* the effect of those reads on __ff_params__: Param.__get__ stores the
\* default it returns (line 141)
read_targets(p, ts) ==
  [t \in ParamFields |->
     IF t \in ts /\ p[t] = Absent THEN default_value(t) ELSE p[t]]

\* the loop of _calculate_from_depends_on: the position of the first
\* dependency whose id differs from the recorded one, 0 when none does
first_mismatch(p, d, f) ==
  IF \A k \in 1..Len(depends_on(f)) :
       cur_id(p, depends_on(f)[k]) = d[f][depends_on(f)[k]]
  THEN 0
  ELSE CHOOSE k \in 1..Len(depends_on(f)) :
         /\ cur_id(p, depends_on(f)[k]) # d[f][depends_on(f)[k]]
         /\ \A j \in 1..(k - 1) :
              cur_id(p, depends_on(f)[j]) = d[f][depends_on(f)[j]]

\* a recompute that would record the id of the first changed dependency only
record_first_only(p, d, f) ==
  [d EXCEPT ![f] =
     [t \in DOMAIN d[f] |->
        IF t = depends_on(f)[first_mismatch(p, d, f)] THEN cur_id(p, t) ELSE @[t]]]

\* the ids recorded after a recompute: one per declared dependency
record_ids(p, d, f) ==
  [d EXCEPT ![f] = [t \in DOMAIN d[f] |-> IF t \in Targets(f) THEN cur_id(p, t) ELSE @[t]]]

\* a read that would compute only what was never stored
needs_compute_unstored(f, m) == m[f] = Absent

\* a read that would compute whatever is stored
needs_compute_always(f, m) == TRUE

\* lines 131 and 293: the field is computed when never stored, or uncached
needs_compute(f, m) == m[f] = Absent \/ no_cache(f)

\* the result of a read: the maps after it, the value returned or the error,
\* the number of invocations of the computation function and what it made
Res(p, n, d, ret, err, calls, made) ==
  [p |-> p, n |-> n, d |-> d, ret |-> ret, err |-> err, calls |-> calls,
   made |-> made]

\* return obj.__ff_params__[name] / obj.__ff_nodes__[name]
Lookup(p, n, d, m, f, calls, made) ==
  IF m[f] = Absent
  THEN Res(p, n, d, Absent, "KeyError", calls, made)
  ELSE Res(p, n, d, m[f], None, calls, made)

\* Param._calculate_from_depends_on, then the return of Param.__get__;
\* v is what the computation function returns when invoked
param_get_computed(p, n, d, f, v) ==
  IF first_mismatch(p, d, f) = 0
  THEN Lookup(read_targets(p, Targets(f)), n, d,
              read_targets(p, Targets(f)), f, 0, Absent)
  ELSE Lookup([read_targets(p, Targets(f)) EXCEPT ![f] = v], n,
              record_ids(p, d, f),
              [read_targets(p, Targets(f)) EXCEPT ![f] = v], f, 1, v)

\* Param.__get__ on an instance (lines 129-143)
param_get(p, n, d, f, v) ==
  IF depends_on(f) # <<>>
  THEN param_get_computed(p, n, d, f, v)
  ELSE IF needs_compute(f, p)
       THEN IF has_callback(f)
            THEN Lookup([p EXCEPT ![f] = v], n, d, [p EXCEPT ![f] = v], f, 1, v)
            ELSE IF has_default(f)
                 THEN Lookup([p EXCEPT ![f] = default_value(f)], n, d,
                             [p EXCEPT ![f] = default_value(f)], f, 0, Absent)
                 ELSE Res(p, n, d, Absent, AttributeError, 0, Absent)
       ELSE Lookup(p, n, d, p, f, 0, Absent)

\* Node._calculate_from_depends_on, then the return of Node.__get__
node_get_computed(p, n, d, f, v) ==
  IF first_mismatch(p, d, f) = 0
  THEN Lookup(read_targets(p, Targets(f)), n, d, n, f, 0, Absent)
  ELSE Lookup(read_targets(p, Targets(f)), [n EXCEPT ![f] = v],
              record_ids(p, d, f), [n EXCEPT ![f] = v], f, 1, v)

\* self._default(**self._default_kwargs): the static default of a sub-unit
\* field is a composable class, and calling it makes a new instance
default_node(v) == Val(v.id, "comp")

\* Node.__get__ on an instance (lines 291-307).  The instance is not inside a
\* call, so _prepare_child (line 305) finds _ff_in_run false and changes
\* nothing.
node_get(p, n, d, f, v) ==
  IF depends_on(f) # <<>>
  THEN node_get_computed(p, n, d, f, v)
  ELSE IF needs_compute(f, n)
       THEN IF has_callback(f)
            THEN Lookup(p, [n EXCEPT ![f] = v], d, [n EXCEPT ![f] = v], f, 1, v)
            ELSE IF has_default(f)
                 THEN Lookup(p, [n EXCEPT ![f] = default_node(v)], d,
                             [n EXCEPT ![f] = default_node(v)], f, 0,
                             default_node(v))
                 ELSE Res(p, n, d, Absent, AttributeError, 0, Absent)
       ELSE Lookup(p, n, d, n, f, 0, Absent)

field_get(p, n, d, f, v) ==
  IF f \in ParamFields THEN param_get(p, n, d, f, v) ELSE node_get(p, n, d, f, v)

\* Composable._make_composable of a value: w is the ComposableProxy made when
\* the value is not a composable
make_composable_value(v, w) ==
  IF v.kind \in {"comp", "proxy"} THEN v ELSE w

\* Param.__set__ (lines 174-189) of a field that is neither strict_type nor
\* refresh_on_set
param_set(p, n, d, f, v) ==
  IF depends_on(f) # <<>>
  THEN Res(p, n, d, Absent, "ValueError", 0, Absent)
  ELSE Res([p EXCEPT ![f] = v], n, d, Absent, None, 0, Absent)

\* Node.__set__ (lines 338-344)
node_set(p, n, d, f, v) ==
  IF v.kind \notin {"comp", "proxy"}
  THEN Res(p, n, d, Absent, "ValueError", 0, Absent)
  ELSE Res(p, [n EXCEPT ![f] = v], d, Absent, None, 0, Absent)

\* Composable.__setattr__ (lines 618-625) for a declared field
setattr(p, n, d, f, v, w) ==
  IF f \in NodeFields
  THEN node_set(p, n, d, f, make_composable_value(v, w))
  ELSE param_set(p, n, d, f, v)

\* Param.__delete__, Node.__delete__
field_delete(p, n, d, f) ==
  IF f \in ParamFields
  THEN Res([p EXCEPT ![f] = Absent], n, d, Absent, None, 0, Absent)
  ELSE Res(p, [n EXCEPT ![f] = Absent], d, Absent, None, 0, Absent)

\* ---------------------------------------------------- field actions
NoLast ==
  [op |-> "none", f |-> None, ret |-> Absent, err |-> None, calls |-> 0,
   made |-> Absent, before |-> Absent, hadprev |-> FALSE, changed |-> FALSE,
   prevret |-> Absent, same |-> TRUE, moved |-> {}]

\* what an object given to a dependency may hold; the default objects of the
\* class hold the first
Contents == {"u", "v"}
DefaultContent == "u"
DepTargets == UNION {Targets(f) : f \in Computed}

\* the fields without a dependency list
PlainFields == Fields \ Computed

NoPrev ==
  [had |-> FALSE, ret |-> Absent, seen |-> [t \in ParamFields |-> 0],
   fresh |-> {}, held |-> [t \in DepTargets |-> DefaultContent]]

FieldInit ==
  /\ ffparams = [f \in ParamFields |-> Absent]
  /\ ffnodes = [f \in NodeFields |-> Absent]
  /\ ffdepends = [f \in Computed |-> [t \in Targets(f) |-> -1]]
  /\ nid = Cardinality(DefaultIds)
  /\ last = NoLast
  /\ prev = [f \in Computed |-> NoPrev]
  /\ cont = [t \in DepTargets |-> DefaultContent]
  /\ wrote = [f \in PlainFields |-> Absent]

Stored(f) == IF f \in ParamFields THEN ffparams[f] ELSE ffnodes[f]

MaxOf(a, b) == IF a > b THEN a ELSE b

\* the maps after an operation with result r
Applied(r) ==
  /\ ffparams' = r.p
  /\ ffnodes' = r.n
  /\ ffdepends' = r.d

Unchanged(r) == r.p = ffparams /\ r.n = ffnodes /\ r.d = ffdepends

DidRead(f, r, id) ==
  /\ (id = 0) = (r.made = Absent)
  /\ Applied(r)
  /\ nid' = MaxOf(nid, id)
  /\ last' = [op |-> "read", f |-> f, ret |-> r.ret, err |-> r.err,
              calls |-> r.calls, made |-> r.made, before |-> Stored(f),
              hadprev |-> f \in Computed /\ prev[f].had,
              changed |-> f \in Computed /\
                          \E t \in Targets(f) : cur_id(ffparams, t) # prev[f].seen[t],
              prevret |-> IF f \in Computed THEN prev[f].ret ELSE Absent,
              same |-> Unchanged(r),
              moved |-> IF f \in Computed /\ prev[f].had
                        THEN {t \in Targets(f) :
                                cur_id(ffparams, t) # prev[f].seen[t]}
                        ELSE {}]
  /\ prev' = IF f \in Computed
             THEN [prev EXCEPT ![f] =
                     [had |-> r.err = None, ret |-> r.ret,
                      seen |-> [t \in ParamFields |-> cur_id(ffparams, t)],
                      fresh |-> {}, held |-> cont]]
             ELSE prev
  /\ cont' = cont
  /\ wrote' = wrote

\* the environment reads field f
FieldRead(f) ==
  /\ \E id \in NewIds \cup {0} : \E k \in CallbackKinds(f) :
       DidRead(f, field_get(ffparams, ffnodes, ffdepends, f, Val(id, k)), id)
  /\ UNCHANGED <<callvars, auxvars>>

\* the dependencies of g that hold another object than at the last read of
\* g, after field f was given the object now under id
Fresh(g, f, id) ==
  IF f \notin Targets(g) THEN prev[g].fresh
  ELSE IF id = default_value(f).id /\ prev[g].seen[f] = id
       THEN prev[g].fresh \ {f}
       ELSE prev[g].fresh \cup {f}

DidWrite(f, r, top, co, v) ==
  /\ Applied(r)
  /\ nid' = MaxOf(nid, top)
  /\ last' = [NoLast EXCEPT !.op = "write", !.f = f, !.err = r.err,
                            !.before = Stored(f), !.same = Unchanged(r)]
  /\ prev' = IF r.err = None /\ f \in DepTargets
             THEN [g \in Computed |->
                     [prev[g] EXCEPT !.fresh = Fresh(g, f, r.p[f].id)]]
             ELSE prev
  /\ cont' = IF r.err = None /\ f \in DepTargets
             THEN [cont EXCEPT ![f] = co] ELSE cont
  /\ wrote' = IF r.err = None /\ f \in PlainFields
              THEN [wrote EXCEPT ![f] = v] ELSE wrote

\* the environment assigns a new object to field f: a value to a value field;
\* a composable or a plain callable to a sub-unit field.  The object holds
\* co.
FieldWrite(f, co) ==
  /\ \E a \in NewIds : \E b \in NewIds \cup {0} : \E k \in CallbackKinds(f) :
       /\ (k = "raw") = (b # 0)
       /\ a # b
       /\ DidWrite(f,
                   setattr(ffparams, ffnodes, ffdepends, f, Val(a, k),
                           ProxyOf(b, Val(a, k))),
                   MaxOf(a, b), co, Val(a, k))
  /\ UNCHANGED <<callvars, auxvars>>

\* the environment deletes field f
FieldDelete(f) ==
  /\ Applied(field_delete(ffparams, ffnodes, ffdepends, f))
  /\ last' = [NoLast EXCEPT !.op = "delete", !.f = f, !.before = Stored(f)]
  /\ prev' = IF f \in DepTargets /\ Stored(f) # Absent
             THEN [g \in Computed |->
                     [prev[g] EXCEPT !.fresh = Fresh(g, f, default_value(f).id)]]
             ELSE prev
  /\ cont' = IF f \in DepTargets
             THEN [cont EXCEPT ![f] = DefaultContent] ELSE cont
  /\ wrote' = IF f \in PlainFields
              THEN [wrote EXCEPT ![f] = Absent] ELSE wrote
  /\ UNCHANGED nid
  /\ UNCHANGED <<callvars, auxvars>>

\* the environment changes the content of the object a dependency holds,
\* leaving the object in place (obj.x.append(...)); the defaults, which the
\* class shares among its instances, are left as they are
FieldMutate(t) ==
  /\ ffparams[t] # Absent
  /\ ffparams[t].id \notin DefaultIds
  /\ \E co \in Contents \ {cont[t]} : cont' = [cont EXCEPT ![t] = co]
  /\ last' = [NoLast EXCEPT !.op = "mutate", !.f = t, !.before = Stored(t)]
  /\ UNCHANGED <<ffparams, ffnodes, ffdepends, nid, prev, wrote>>
  /\ UNCHANGED <<callvars, auxvars>>

\* the fields that take part in dependencies, and the others
DepFields == Computed \cup UNION {Targets(f) : f \in Computed}
FreeFields == Fields \ DepFields

DepNext ==
  \/ \E f \in DepFields : FieldRead(f)
  \/ \E f \in DepFields : FieldWrite(f, DefaultContent)
  \/ \E f \in DepFields : FieldDelete(f)

\* the computed value field with two dependencies, and its dependencies
TwoDepFields == {f \in Computed : Len(depends_on(f)) >= 2}
                  \cup UNION {Targets(f) : f \in {g \in Computed : Len(depends_on(g)) >= 2}}

TwoDepNext ==
  \/ \E f \in TwoDepFields : FieldRead(f)
  \/ \E f \in TwoDepFields : \E co \in Contents : FieldWrite(f, co)
  \/ \E f \in TwoDepFields : FieldDelete(f)
  \/ \E t \in TwoDepFields \cap DepTargets : FieldMutate(t)

\* reads, writes and deletes of the fields without a dependency list
PlainNext ==
  \/ \E f \in PlainFields : FieldRead(f)
  \/ \E f \in PlainFields : FieldWrite(f, DefaultContent)
  \/ \E f \in PlainFields : FieldDelete(f)

FieldNext ==
  \/ \E f \in FreeFields : FieldRead(f)
  \/ \E f \in FreeFields : FieldWrite(f, DefaultContent)
  \/ \E f \in FreeFields : FieldDelete(f)

\* ============================================================ middleware
\* A type declares Middleware.middleware = [m1, ..., mn].  Each entry is a
\* class called as cls(obj=self, next_call=next_call); the object it makes is
\* a stage, called with the call's arguments.  A stage either calls its next
\* stage and returns what comes back ("wrap") or returns a value of its own
\* without calling it ("short").  Stages are named by their place in the
\* declared list.
StageKinds == {"wrap", "short"}

\* the declared lists
RECURSIVE ListsOf(_)
ListsOf(n) ==
  IF n = 0
  THEN {<<>>}
  ELSE ListsOf(n - 1) \cup
       {Append(l, k) : l \in {x \in ListsOf(n - 1) : Len(x) = n - 1}, k \in StageKinds}

\* reversed(middleware): the places of the list, last first
reversed(n) == [j \in 1..n |-> n + 1 - j]

\* the places of the list in declared order
forward(n) == [j \in 1..n |-> j]

RECURSIVE wrap_all(_, _, _)

\* the loop of lines 499-501 over the places in `order`, from position j:
\* next_call = cls(obj=self, next_call=next_call).  A chain is written as the
\* stages from the outermost to the innermost; the bare computation follows
\* the innermost.
wrap_all(order, j, chain) ==
  IF j > Len(order)
  THEN chain
  ELSE wrap_all(order, j + 1, <<order[j]>> \o chain)

\* a construction that would wrap in declared order
build_chain_forward(n) == wrap_all(forward(n), 1, <<>>)

\* Composable.__init__, lines 494-502: self._middleware
build_chain(n) == wrap_all(reversed(n), 1, <<>>)

\* the values that travel back: the computation's output, or the value of
\* the stage that did not call its next stage
RunOutput == "output"
StageValue(s) == "value-" \o ToString(s)

MwNone ==
  [kinds |-> <<>>, chain |-> <<>>, phase |-> "none", active |-> <<>>,
   entered |-> <<>>, left |-> <<>>, ran |-> FALSE, val |-> None]

MwInit == mw = MwNone

notmw == <<callvars, fieldvars, td, cy, pl, sq, cc, cp, pf, th, pr, nh, pi, fl, it, ac>>

\* an instance of a type with the declared list `kinds` is constructed
MwConstruct(kinds) ==
  /\ mw.phase \in {"none", "done"}
  /\ mw' = [MwNone EXCEPT !.kinds = kinds,
                          !.chain = build_chain(Len(kinds)),
                          !.phase = "built"]
  /\ UNCHANGED notmw

\* __call__, line 565: self._middleware(*args, **kwargs)
MwCall ==
  /\ mw.phase \in {"built", "done"}
  /\ mw' = [mw EXCEPT !.phase = "in", !.active = <<>>, !.entered = <<>>,
                      !.left = <<>>, !.ran = FALSE, !.val = None]
  /\ UNCHANGED notmw

\* the next stage of the chain is called
MwEnter ==
  /\ mw.phase = "in"
  /\ Len(mw.active) < Len(mw.chain)
  /\ mw' = IF mw.kinds[mw.chain[Len(mw.active) + 1]] = "wrap"
           THEN [mw EXCEPT !.active = Append(@, mw.chain[Len(mw.active) + 1]),
                           !.entered = Append(@, mw.chain[Len(mw.active) + 1])]
           ELSE [mw EXCEPT !.entered = Append(@, mw.chain[Len(mw.active) + 1]),
                           !.left = Append(@, mw.chain[Len(mw.active) + 1]),
                           !.val = StageValue(mw.chain[Len(mw.active) + 1]),
                           !.phase = "out"]
  /\ UNCHANGED notmw

\* the innermost stage calls the bare computation, self._run
MwRun ==
  /\ mw.phase = "in"
  /\ Len(mw.active) = Len(mw.chain)
  /\ mw' = [mw EXCEPT !.ran = TRUE, !.val = RunOutput, !.phase = "out"]
  /\ UNCHANGED notmw

\* the innermost active stage returns the value to its caller; the last
\* return is the return of the call
MwLeave ==
  /\ mw.phase = "out"
  /\ mw' = IF mw.active = <<>>
           THEN [mw EXCEPT !.phase = "done"]
           ELSE [mw EXCEPT !.left = Append(@, mw.active[Len(mw.active)]),
                           !.active = SubSeq(@, 1, Len(@) - 1)]
  /\ UNCHANGED notmw

MwNext ==
  \/ \E kinds \in ListsOf(MaxMw) : MwConstruct(kinds)
  \/ MwCall
  \/ MwEnter
  \/ MwRun
  \/ MwLeave

\* ======================================================= type definition
\* A class statement defines the type T, a subclass of Composable or of Mid
\* (itself a subclass of Composable).  Composable declares the protected
\* keyword "run" (among others); Mid declares "mk" and declares "run" again;
\* T may declare "tk".  T's body declares one name: by annotation only
\* (name: type) or with an explicit descriptor (name = Param(...) or
\* name = Node(...)), which may carry a dependency list, a computation
\* function and the uncached policy.
DeclNames == {"x", "_x", "run", "mk", "tk"}
Forms == {"annotation", "descriptor"}
FieldKinds == {"param", "node"}
Parents == {"Composable", "Mid"}

Decls ==
  {d \in [name : DeclNames, form : Forms, kind : FieldKinds,
          dep : BOOLEAN, cb : BOOLEAN, nc : BOOLEAN,
          parent : Parents, own : BOOLEAN] :
     d.form = "annotation" => (~d.dep /\ ~d.cb /\ ~d.nc)}

\* name.startswith("_")
starts_with_marker(name) == name = "_x"

\* cls.mro(), the type first
mro(d) ==
  IF d.parent = "Mid" THEN <<"T", "Mid", "Composable">> ELSE <<"T", "Composable">>

\* each_cls.__dict__.get("_keywords", [])
own_keywords(d, c) ==
  CASE c = "Composable" -> {"run"}
    [] c = "Mid" -> {"mk", "run"}
    [] OTHER -> IF d.own THEN {"tk"} ELSE {}

\* a lookup that would know only the keywords the type itself declares
protected_keywords_own(d) ==
  [k \in own_keywords(d, "T") |-> "T"]

\* Composable._protected_keywords: keyword -> the first class of the mro
\* that declares it
protected_keywords(d) ==
  [k \in UNION {own_keywords(d, mro(d)[j]) : j \in 1..Len(mro(d))} |->
     mro(d)[CHOOSE j \in 1..Len(mro(d)) :
              /\ k \in own_keywords(d, mro(d)[j])
              /\ \A i \in 1..(j - 1) : k \notin own_keywords(d, mro(d)[i])]]

\* the class body: the descriptor expression is evaluated.  Node.__init__
\* (lines 262-265) raises for depends_on with no_cache (formatting its
\* message reads self._name, which is not set yet, so the error that leaves
\* is an AttributeError); Param.__init__ checks nothing.
body_error(d) ==
  IF d.form = "descriptor" /\ d.kind = "node" /\ d.dep /\ d.nc
  THEN AttributeError
  ELSE None

\* lines 387-396: an annotated name without descriptor gets one, unless it
\* starts with "_"; the result tells whether the name is a field of the type
is_field(d) ==
  d.form = "descriptor" \/ ~starts_with_marker(d.name)

\* type.__new__ calls __set_name__ of each descriptor: Param.__set_name__
\* runs _validate_args (lines 105-112); Node.__set_name__ validates nothing
set_name_error(d) ==
  IF is_field(d) /\ d.kind = "param" /\ d.dep /\ (~d.cb \/ d.nc)
  THEN "InvalidParamDefinition"
  ELSE None

\* lines 407-417: the checks on the names of the descriptors
name_error(d) ==
  IF is_field(d) /\ starts_with_marker(d.name)
  THEN [err |-> "ValueError", named |-> None]
  ELSE IF is_field(d) /\ d.name \in DOMAIN protected_keywords(d)
       THEN [err |-> "ValueError", named |-> protected_keywords(d)[d.name]]
       ELSE [err |-> None, named |-> None]

\* the class statement: the body, then MetaComposable.__new__
define_type(d) ==
  IF body_error(d) # None
  THEN [err |-> body_error(d), named |-> None]
  ELSE IF set_name_error(d) # None
       THEN [err |-> set_name_error(d), named |-> None]
       ELSE name_error(d)

\* the first read of the declared name on a new instance, when it is a field
\* (its dependencies are fields with defaults): lines 129-143 and 291-307
first_read(d) ==
  IF d.dep
  THEN IF d.cb THEN None ELSE "ValueError"
  ELSE IF d.cb THEN None ELSE AttributeError

NoDecl ==
  [name |-> None, form |-> None, kind |-> None, dep |-> FALSE, cb |-> FALSE,
   nc |-> FALSE, parent |-> None, own |-> FALSE]

TdNone ==
  [phase |-> "none", decl |-> NoDecl, err |-> None, named |-> None,
   readerr |-> None]

TdInit == td = TdNone

nottd == <<callvars, fieldvars, mw, cy, pl, sq, cc, cp, pf, th, pr, nh, pi, fl, it, ac>>

Defined(d, r) ==
  td' = [phase |-> IF r.err = None THEN "type" ELSE "failed",
         decl |-> d, err |-> r.err, named |-> r.named, readerr |-> None]

\* the class statement of T is executed
TdDefine(d) ==
  /\ td.phase # "instance"
  /\ Defined(d, define_type(d))
  /\ UNCHANGED nottd

\* T(...) for a type that exists
TdConstruct ==
  /\ td.phase = "type"
  /\ td' = [td EXCEPT !.phase = "instance"]
  /\ UNCHANGED nottd

\* the declared field of the instance is read for the first time
TdRead ==
  /\ td.phase = "instance"
  /\ is_field(td.decl)
  /\ td' = [td EXCEPT !.phase = "read", !.readerr = first_read(td.decl)]
  /\ UNCHANGED nottd

TdNext ==
  \/ \E d \in Decls : TdDefine(d)
  \/ TdConstruct
  \/ TdRead

\* ==================================================== graph traversals
\* n instances, each with one sub-unit field holding the next one; the last
\* holds the first when the graph is cyclic and has no sub-unit otherwise.
\* Two traversals start at the first instance: a call, whose body reads the
\* sub-unit field (Node.__get__ -> _prepare_child -> child.context = ...,
\* and _set_context hands the context on to the sub-unit, lines 593-597),
\* and describe() (_describe_inst, lines 789-809).  A frame is counted per
\* instance visited; a call that would need more than RecursionLimit frames
\* raises RecursionError in the calling frame.
RecursionError == "RecursionError"

CyNone ==
  [op |-> "none", n |-> 0, cyclic |-> FALSE, depth |-> 0, phase |-> "none",
   out |-> None]

CyInit == cy = CyNone

notcy == <<callvars, fieldvars, mw, td, pl, sq, cc, cp, pf, th, pr, nh, pi, fl, it, ac>>

\* the instance of frame `depth` has a sub-unit to go to
has_child(c) == c.cyclic \/ c.depth < c.n

\* the environment starts a traversal at the first instance
CyStart(op, n, cyclic) ==
  /\ cy.phase \in {"none", "done"}
  /\ cy' = [op |-> op, n |-> n, cyclic |-> cyclic, depth |-> 1,
            phase |-> "down", out |-> None]
  /\ UNCHANGED notcy

\* _set_context of the instance of the innermost frame: the context is
\* handed to its sub-unit, or the instance has none and the frames return
CySetContext ==
  /\ cy.op = "call" /\ cy.phase = "down"
  /\ cy' = IF has_child(cy)
           THEN IF cy.depth < RecursionLimit
                THEN [cy EXCEPT !.depth = @ + 1]
                ELSE [cy EXCEPT !.phase = "exc"]
           ELSE [cy EXCEPT !.phase = "ret"]
  /\ UNCHANGED notcy

\* the RecursionError leaves the innermost frame: no frame of the call
\* handles it, and __call__ raises it again (lines 569-570)
CyCallRaise ==
  /\ cy.op = "call" /\ cy.phase = "exc"
  /\ cy' = IF cy.depth = 1
           THEN [cy EXCEPT !.depth = 0, !.phase = "done", !.out = reraise(RecursionError)]
           ELSE [cy EXCEPT !.depth = @ - 1]
  /\ UNCHANGED notcy

\* the innermost frame of a call returns
CyCallReturn ==
  /\ cy.op = "call" /\ cy.phase = "ret"
  /\ cy' = IF cy.depth = 1
           THEN [cy EXCEPT !.depth = 0, !.phase = "done", !.out = "value"]
           ELSE [cy EXCEPT !.depth = @ - 1]
  /\ UNCHANGED notcy

\* _describe_inst, lines 792-797: inside the try the sub-unit is read and
\* its _describe_inst called; a RecursionError of that call is caught by the
\* bare except of the same frame, which stores None and goes on
CyDescribeNode ==
  /\ cy.op = "describe" /\ cy.phase = "down"
  /\ cy' = IF has_child(cy) /\ cy.depth < RecursionLimit
           THEN [cy EXCEPT !.depth = @ + 1]
           ELSE [cy EXCEPT !.phase = "params"]
  /\ UNCHANGED notcy

\* _describe_inst, line 800: self.params is a call outside the try; at the
\* limit its RecursionError leaves the frame
CyDescribeParams ==
  /\ cy.op = "describe" /\ cy.phase = "params"
  /\ cy' = IF cy.depth < RecursionLimit
           THEN [cy EXCEPT !.phase = "ret"]
           ELSE [cy EXCEPT !.phase = "exc"]
  /\ UNCHANGED notcy

\* the frame returns its dict, or the error leaves it; either way the caller
\* is inside its try: it stores the dict, or catches the error and stores
\* None, and goes on with its own params
CyDescribeLeave ==
  /\ cy.op = "describe" /\ cy.phase \in {"ret", "exc"}
  /\ cy' = IF cy.depth = 1
           THEN [cy EXCEPT !.depth = 0, !.phase = "done",
                           !.out = IF cy.phase = "ret" THEN "value" ELSE RecursionError]
           ELSE [cy EXCEPT !.depth = @ - 1, !.phase = "params"]
  /\ UNCHANGED notcy

CyNext ==
  \/ \E op \in {"call", "describe"} : \E n \in 1..MaxRing :
       \E cyclic \in BOOLEAN : CyStart(op, n, cyclic)
  \/ CySetContext
  \/ CyCallRaise
  \/ CyCallReturn
  \/ CyDescribeNode
  \/ CyDescribeParams
  \/ CyDescribeLeave

\* ============================================================ pipelines
\* A tree of Pipeline objects (finestflow/pipeline.py): R is built by the
\* environment; its initialize() assigns a pipeline to step s, which
\* __setattr__ replaces by a clone S sharing R's context and flagged nested
\* (lines 81-88); S holds T under step t in the same way.
Pipes == {"R", "S", "T"}

\* _ff_nodes: the step names appended by __setattr__ (line 80)
pipe_nodes(p) ==
  CASE p = "R" -> <<"s">>
    [] p = "S" -> <<"t">>
    [] OTHER -> <<>>

\* the pipeline a step holds
StepOf(p) == IF p = "R" THEN "S" ELSE "T"

\* _is_pipeline_nested: False from __init__, True on the clones (line 88)
is_pipeline_nested(p) == p # "R"

StepNames == {"s", "t"}

\* kwargs.pop(key, default), the value and the remaining dict
pop_value(kw, key, default) == IF key \in DOMAIN kw THEN kw[key] ELSE default
pop_keep(kw, key) == kw
pop_rest(kw, key) == [x \in DOMAIN kw \ {key} |-> kw[x]]

\* the keyword arguments a caller can pass
KwargsOf(from, name, k) ==
  [x \in {y \in {"_ff_from", "_ff_name", "k"} :
            \/ y = "_ff_from" /\ from # None
            \/ y = "_ff_name" /\ name # None
            \/ y = "k" /\ k # None}
     |-> CASE x = "_ff_from" -> from [] x = "_ff_name" -> name [] OTHER -> k]

\* context.set(key, value): the context keeps the value under the key
context_set(c, key, value) == (key :> value) @@ c

\* the truth value of a routing keyword: None and "" are false
truthy(v) == v # None /\ v # ""

\* lines 113-118: a truthy _ff_from is noted in the context
note_from(c, from) ==
  IF truthy(from)
  THEN context_set(context_set(c, "from", from), "good_to_run", FALSE)
  ELSE c

\* lines 119-122: so are a truthy _ff_to and a truthy _ff_from_cache
note_to(c, to) == IF truthy(to) THEN context_set(c, "to", to) ELSE c
note_cache(c, cache) == IF truthy(cache) THEN context_set(c, "cache", cache) ELSE c

\* the reserved keywords __call__ pops
RoutingKeys == {"_ff_from", "_ff_to", "_ff_from_cache", "_ff_name"}

\* keyword arguments holding the given routing keywords (None: not given)
RoutedKwargs(from, to, cache, name, k) ==
  LET given == [x \in RoutingKeys \cup {"k"} |->
                  CASE x = "_ff_from" -> from
                    [] x = "_ff_to" -> to
                    [] x = "_ff_from_cache" -> cache
                    [] x = "_ff_name" -> name
                    [] OTHER -> k]
  IN  [x \in {y \in DOMAIN given : given[y] # None} |-> given[x]]

\* lines 124-129: the name of the invocation, prefixed when the pipeline
\* has a prefix
prefixed_name(prefix, name) ==
  IF prefix # None THEN prefix \o "." \o name ELSE name

\* the record of lines 134-137, built from what run was given
call_record_as_called(args, called, kwargs, output) ==
  [input |-> [args |-> args, kwargs |-> called], output |-> output]

call_record(args, called, kwargs, output) ==
  [input |-> [args |-> args, kwargs |-> kwargs], output |-> output]

PlNoLast ==
  [kind |-> "none", pipe |-> None, path |-> "", args |-> <<>>,
   kwargs |-> <<>>, out |-> None]

\* __init__, lines 36-46: an empty context, no prefix
PlFresh(store_result) ==
  [prefix |-> [p \in Pipes |-> None], ctx |-> <<>>, frames |-> <<>>,
   store_result |-> store_result, ncalls |-> 0, last |-> PlNoLast]

PlInit == pl = PlFresh(None)

notpl == <<callvars, fieldvars, mw, td, cy, sq, cc, cp, pf, th, pr, nh, pi, fl, it, ac>>

\* the environment builds the tree anew, with or without a result folder
PlConstruct(store_result) ==
  /\ pl.frames = <<>>
  /\ pl.ncalls > 0
  /\ pl' = PlFresh(store_result)
  /\ UNCHANGED notpl

\* who may call p now: the environment when no call is active, else the
\* run of the innermost call, on the step it holds
PlCallable(p) ==
  /\ pl.ncalls < PipeCalls
  /\ \/ pl.frames = <<>>
     \/ /\ pl.frames # <<>>
        /\ LET top == pl.frames[Len(pl.frames)].pipe
           IN  pipe_nodes(top) # <<>> /\ p = StepOf(top)

\* __call__, lines 110-131, up to the call of run
PlEnter(p, args, called) ==
  /\ PlCallable(p)
  /\ LET from   == pop_value(called, "_ff_from", None)
         name   == pop_value(called, "_ff_name", "")
         to     == pop_value(called, "_ff_to", None)
         cache  == pop_value(called, "_ff_from_cache", None)
         kwargs == pop_rest(pop_rest(pop_rest(pop_rest(called, "_ff_from"),
                                              "_ff_to"), "_ff_from_cache"),
                            "_ff_name")
         c1     == note_cache(note_to(note_from(pl.ctx, from), to), cache)
         count  == pl.ncalls + 1
     IN  IF pl.prefix[p] # None /\ name = ""
         THEN pl' = [pl EXCEPT !.ctx = c1, !.ncalls = count,
                               !.last = [PlNoLast EXCEPT !.kind = AttributeError,
                                                         !.pipe = p]]
         ELSE LET path == prefixed_name(pl.prefix[p], name)
              IN  pl' = [pl EXCEPT
                     !.ctx = c1,
                     !.ncalls = count,
                     !.prefix = [q \in Pipes |->
                                   IF pipe_nodes(p) # <<>> /\ q = StepOf(p)
                                   THEN path ELSE pl.prefix[q]],
                     !.frames = Append(@, [pipe |-> p, path |-> path,
                                           args |-> args, called |-> called,
                                           kwargs |-> kwargs])]
  /\ UNCHANGED notpl

\* lines 133-152: run returns output; the record is set; a pipeline that is
\* not nested and has a result folder then pickles into files, two of them
\* opened in text mode, where pickle.dump raises TypeError
PlReturn(output) ==
  /\ pl.frames # <<>>
  /\ LET f == pl.frames[Len(pl.frames)]
         c == context_set(pl.ctx, f.path,
                          call_record(f.args, f.called, f.kwargs, output))
         fails == ~is_pipeline_nested(f.pipe) /\ pl.store_result # None
     IN  pl' = [pl EXCEPT
                  !.ctx = c,
                  !.frames = SubSeq(@, 1, Len(@) - 1),
                  !.last = [kind |-> IF fails THEN "TypeError" ELSE "ok",
                            pipe |-> f.pipe, path |-> f.path, args |-> f.args,
                            kwargs |-> f.kwargs,
                            out |-> IF fails THEN None ELSE output]]
  /\ UNCHANGED notpl

\* line 133: run raises, and the call ends without a record
PlRunRaise(e) ==
  /\ pl.frames # <<>>
  /\ LET f == pl.frames[Len(pl.frames)]
     IN  pl' = [pl EXCEPT
                  !.frames = SubSeq(@, 1, Len(@) - 1),
                  !.last = [PlNoLast EXCEPT !.kind = e, !.pipe = f.pipe,
                                            !.path = f.path]]
  /\ UNCHANGED notpl

\* the environment calls the root with routing keywords
PlRouted(args, called) ==
  /\ pl.frames = <<>>
  /\ PlEnter("R", args, called)

PlRouteNext ==
  \/ \E sr \in {None, "dir"} : PlConstruct(sr)
  \/ \E from \in {None, "", "x"} : \E to \in {None, "", "y"} :
       \E cache \in {None, "", "c"} : \E name \in {None, "", "s"} :
         \E k \in {None, "v"} :
           PlRouted(<<>>, RoutedKwargs(from, to, cache, name, k))
  \/ \E output \in {7, 8} : PlReturn(output)
  \/ \E e \in BodyErr : PlRunRaise(e)

PlNext ==
  \/ \E sr \in {None, "dir"} : PlConstruct(sr)
  \/ \E p \in Pipes : \E name \in {None} \cup StepNames :
       \/ PlEnter(p, <<>>, KwargsOf(None, name, None))
       \/ PlEnter(p, <<1>>, KwargsOf("x", name, "v"))
  \/ \E output \in {7, 8} : PlReturn(output)
  \/ \E e \in BodyErr : PlRunRaise(e)


\* ================================================= sequential composites
\* The units of tests/test_workflow.py (lines 7-25): each holds a value x
\* and its run takes one argument y.
UnitKinds == {"IncrementBy", "DecrementBy", "MultiplyBy"}
Units == [kind : UnitKinds, x : {3, 10, 20}]

\* DecrementBy with the operands the other way round
unit_run_swapped(u, y) ==
  CASE u.kind = "IncrementBy" -> u.x + y
    [] u.kind = "DecrementBy" -> y - u.x
    [] OTHER -> u.x * y

\* run of a unit: x + y, x - y, x * y
unit_run(u, y) ==
  CASE u.kind = "IncrementBy" -> u.x + y
    [] u.kind = "DecrementBy" -> u.x - y
    [] OTHER -> u.x * y

\* left >> right of two units: a composite holding both, left first
rshift(left, right) == <<left, right>>

\* composite >> unit: the unit is added after the composite's units
rshift_composite(funcs, unit) == Append(funcs, unit)

SqNone ==
  [funcs |-> <<>>, phase |-> "none", input |-> 0, pos |-> 0, value |-> 0,
   calls |-> <<>>, out |-> 0]

SqInit == sq = SqNone

notsq == <<callvars, fieldvars, mw, td, cy, pl, cc, cp, pf, th, pr, nh, pi, fl, it, ac>>

\* the environment writes u1 >> u2
SqCompose(left, right) ==
  /\ sq.phase \in {"none", "done"}
  /\ sq' = [SqNone EXCEPT !.funcs = rshift(left, right), !.phase = "built"]
  /\ UNCHANGED notsq

\* the environment writes composite >> unit
SqAppend(unit) ==
  /\ sq.phase = "built"
  /\ Len(sq.funcs) < MaxSeq
  /\ sq' = [sq EXCEPT !.funcs = rshift_composite(@, unit)]
  /\ UNCHANGED notsq

\* the composite is called with one positional argument
SqCall(y) ==
  /\ sq.phase = "built"
  /\ sq' = [sq EXCEPT !.phase = "running", !.input = y, !.value = y]
  /\ UNCHANGED notsq

\* the run of the composite invokes its next unit with the value it holds
\* as the sole positional argument, and holds the unit's output afterwards
SqStep ==
  /\ sq.phase = "running"
  /\ sq.pos < Len(sq.funcs)
  /\ LET k == sq.pos + 1
         output == unit_run(sq.funcs[k], sq.value)
     IN  sq' = [sq EXCEPT !.pos = k, !.value = output,
                          !.calls = Append(@, [unit |-> k, args |-> <<sq.value>>,
                                               output |-> output])]
  /\ UNCHANGED notsq

\* after the last unit the composite returns the value it holds
SqReturn ==
  /\ sq.phase = "running"
  /\ sq.pos = Len(sq.funcs)
  /\ sq' = [sq EXCEPT !.phase = "done", !.out = sq.value]
  /\ UNCHANGED notsq

SqNext ==
  \/ \E left \in Units : \E right \in Units : SqCompose(left, right)
  \/ \E unit \in Units : SqAppend(unit)
  \/ \E y \in {1, 2} : SqCall(y)
  \/ SqStep
  \/ SqReturn

\* ================================================= concurrent composites
\* left // right of two units: a composite holding both, left first
floordiv(left, right) == <<left, right>>

\* composite // unit: the unit is added after the composite's units
floordiv_composite(funcs, unit) == Append(funcs, unit)

\* the units composed with //: those of the test's example, and each kind
\* with the operand of another
ConcUnits ==
  {[kind |-> "IncrementBy", x |-> 10], [kind |-> "DecrementBy", x |-> 20],
   [kind |-> "MultiplyBy", x |-> 3], [kind |-> "IncrementBy", x |-> 3],
   [kind |-> "DecrementBy", x |-> 10], [kind |-> "MultiplyBy", x |-> 20]}

\* the outputs in the order the units completed in
gather_as_completed(results, order) ==
  [k \in 1..Len(order) |-> results[order[k]]]

\* the outputs gathered by the declared position of their unit
gather(results, order) == [k \in 1..Len(order) |-> results[k]]

CcNone ==
  [funcs |-> <<>>, phase |-> "none", input |-> 0, given |-> <<>>,
   results |-> <<>>, order |-> <<>>, out |-> <<>>]

CcInit == cc = CcNone

notcc == <<callvars, fieldvars, mw, td, cy, pl, sq, cp, pf, th, pr, nh, pi, fl, it, ac>>

\* the environment writes u1 // u2
CcCompose(left, right) ==
  /\ cc.phase \in {"none", "done"}
  /\ cc' = [CcNone EXCEPT !.funcs = floordiv(left, right), !.phase = "built"]
  /\ UNCHANGED notcc

\* the environment writes composite // unit
CcAppend(unit) ==
  /\ cc.phase = "built"
  /\ Len(cc.funcs) < MaxSeq
  /\ cc' = [cc EXCEPT !.funcs = floordiv_composite(@, unit)]
  /\ UNCHANGED notcc

\* the composite is called with one positional argument: every unit is
\* submitted with that argument
CcCall(y) ==
  /\ cc.phase = "built"
  /\ cc' = [cc EXCEPT !.phase = "running", !.input = y,
                      !.given = [k \in 1..Len(cc.funcs) |-> y],
                      !.results = [k \in 1..Len(cc.funcs) |-> None]]
  /\ UNCHANGED notcc

\* unit k, not completed yet, runs on what it was given and completes
CcComplete(k) ==
  /\ cc.phase = "running"
  /\ k \in 1..Len(cc.funcs)
  /\ \A j \in 1..Len(cc.order) : cc.order[j] # k
  /\ cc' = [cc EXCEPT !.results[k] = unit_run(cc.funcs[k], cc.given[k]),
                      !.order = Append(@, k)]
  /\ UNCHANGED notcc

\* every unit has completed: the composite returns the gathered outputs
CcReturn ==
  /\ cc.phase = "running"
  /\ Len(cc.order) = Len(cc.funcs)
  /\ cc' = [cc EXCEPT !.phase = "done", !.out = gather(cc.results, cc.order)]
  /\ UNCHANGED notcc

CcNext ==
  \/ \E left \in ConcUnits : \E right \in ConcUnits : CcCompose(left, right)
  \/ \E unit \in ConcUnits : CcAppend(unit)
  \/ \E y \in {1, 2} : CcCall(y)
  \/ \E k \in 1..MaxSeq : CcComplete(k)
  \/ CcReturn

\* ================================================ composing composites
\* A term is a unit, or a composite [kind, funcs] with kind "seq" (built by
\* >>) or "conc" (built by //) and funcs a sequence of terms.
Ops == {"seq", "conc"}
OtherOp(op) == IF op = "seq" THEN "conc" ELSE "seq"

\* every operand is kept as one element
parts_nested(op, t) == <<t>>

\* what an operand brings into a composite of kind op: its units when it is
\* itself a composite of that kind, else the operand as one element
parts(op, t) == IF t.kind = op THEN t.funcs ELSE <<t>>

\* left >> right (op = "seq") and left // right (op = "conc")
compose(op, left, right) ==
  [kind |-> op, funcs |-> parts(op, left) \o parts(op, right)]

\* the output of a term called with y
RECURSIVE run_term(_, _)
RECURSIVE run_through(_, _, _)
run_term(t, y) ==
  CASE t.kind = "seq" -> run_through(t.funcs, Len(t.funcs), y)
    [] t.kind = "conc" -> [k \in 1..Len(t.funcs) |-> run_term(t.funcs[k], y)]
    [] OTHER -> unit_run(t, y)

\* the output of the k-th element of funcs, the elements before it having
\* been run one on the output of the other, the first on y
run_through(funcs, k, y) ==
  IF k = 0 THEN y ELSE run_term(funcs[k], run_through(funcs, k - 1, y))

CpNone ==
  [phase |-> "none", op |-> "seq", units |-> <<>>, left |-> None,
   right |-> None, mixed |-> None, outl |-> None, outr |-> None,
   outm |-> None]

CpInit == cp = CpNone

notcp == <<callvars, fieldvars, mw, td, cy, pl, sq, cc, pf, th, pr, nh, pi, fl, it, ac>>

\* the environment writes (a op b) op c, a op (b op c), and (a op b)
\* composed with c by the other operator
CpBuild(op, a, b, c) ==
  /\ cp.phase \in {"none", "built", "done"}
  /\ cp' = [CpNone EXCEPT
              !.phase = "built", !.op = op, !.units = <<a, b, c>>,
              !.left = compose(op, compose(op, a, b), c),
              !.right = compose(op, a, compose(op, b, c)),
              !.mixed = compose(OtherOp(op), compose(op, a, b), c)]
  /\ UNCHANGED notcp

\* the two like-with-like composites are called with y; so is the mixed one
\* when it is concurrent (its units then all take y)
CpCall(y) ==
  /\ cp.phase = "built"
  /\ cp' = [cp EXCEPT !.phase = "done",
                      !.outl = run_term(cp.left, y),
                      !.outr = run_term(cp.right, y),
                      !.outm = IF cp.op = "seq" THEN run_term(cp.mixed, y)
                               ELSE None]
  /\ UNCHANGED notcp

CpNext ==
  \/ \E op \in Ops : \E a \in Units : \E b \in Units : \E c \in Units :
       CpBuild(op, a, b, c)
  \/ \E y \in {1, 2} : CpCall(y)

\* ================================================= process-pool fan-out
\* parallel(flow, "increment_by", tasks, processes=p) of
\* tests/test_workflow.py (lines 33-46): the sub-unit increment_by of the
\* running flow is invoked once per task payload {"y": y} by a pool of p
\* worker processes.  Tasks are submitted in list order; the invocation of
\* task k is named as the k-th invocation of the field (child_name), and its
\* record goes to the flow's context, which the workers share.
increment_by == [kind |-> "IncrementBy", x |-> 1]
FanField == "increment_by"

\* the context path of the k-th submitted task, under the root
task_path(k) == abs_path([prefix |-> ".", name |-> child_name(FanField, k - 1)])

PfNone ==
  [phase |-> "none", tasks |-> <<>>, pool |-> 0, next |-> 1,
   running |-> <<>>, results |-> <<>>, finished |-> <<>>, ctx |-> <<>>,
   out |-> <<>>]

PfInit == pf = PfNone

notpf == <<callvars, fieldvars, mw, td, cy, pl, sq, cc, cp, th, pr, nh, pi, fl, it, ac>>

\* the running flow starts the fan-out over the payloads with p workers
PfStart(tasks, p) ==
  /\ pf.phase \in {"none", "done"}
  /\ pf' = [PfNone EXCEPT !.phase = "running", !.tasks = tasks, !.pool = p,
                          !.running = [w \in 1..p |-> 0],
                          !.results = [k \in 1..Len(tasks) |-> None]]
  /\ UNCHANGED notpf

\* an idle worker takes the next submitted task
PfTake(w) ==
  /\ pf.phase = "running"
  /\ w \in 1..pf.pool
  /\ pf.running[w] = 0
  /\ pf.next <= Len(pf.tasks)
  /\ pf' = [pf EXCEPT !.running[w] = pf.next, !.next = @ + 1]
  /\ UNCHANGED notpf

\* a worker completes its task: the sub-unit ran on the payload, its record
\* is set in the shared context, and the result is kept for the task
PfFinish(w) ==
  /\ pf.phase = "running"
  /\ w \in 1..pf.pool
  /\ pf.running[w] # 0
  /\ LET k == pf.running[w]
         output == unit_run(increment_by, pf.tasks[k])
     IN  pf' = [pf EXCEPT
                  !.running[w] = 0,
                  !.results[k] = output,
                  !.finished = Append(@, k),
                  !.ctx = context_set(@, task_path(k),
                                      [input |-> pf.tasks[k], output |-> output])]
  /\ UNCHANGED notpf

\* every task is complete: the results are returned by submission index
PfGather ==
  /\ pf.phase = "running"
  /\ Len(pf.finished) = Len(pf.tasks)
  /\ pf' = [pf EXCEPT !.phase = "done",
                      !.out = gather(pf.results, pf.finished)]
  /\ UNCHANGED notpf

RECURSIVE SeqsUpTo(_, _)
SeqsUpTo(S, n) ==
  IF n = 0 THEN {<<>>}
  ELSE LET shorter == SeqsUpTo(S, n - 1)
       IN  shorter \cup {Append(q, x) : q \in shorter, x \in S}

PfNext ==
  \/ \E tasks \in SeqsUpTo({1, 2}, MaxTasks) \ {<<>>} : \E p \in 1..MaxPool :
       PfStart(tasks, p)
  \/ \E w \in 1..MaxPool : PfTake(w)
  \/ \E w \in 1..MaxPool : PfFinish(w)
  \/ PfGather

\* ======================================= the in-memory context store
\* SimpleMemoryContext used by several threads of one process
\* (tests/test_context.py, lines 13-36).  A mutation (set, clear) takes the
\* store's lock, reads the mapping, writes the changed mapping back and
\* releases the lock; get reads the mapping.
SetOp(key, value) == [op |-> "set", key |-> key, value |-> value]
GetOp(key) == [op |-> "get", key |-> key, value |-> 0]
ClearOp == [op |-> "clear", key |-> "", value |-> 0]

\* what a thread runs: the three sets of the test, with 1 or another value
\* for a; a set of another key followed by a get; a clear
Programs ==
  {<<SetOp("a", v), SetOp("b", 2), SetOp("c", 3)>> : v \in {1, 4}}
    \cup {<<SetOp("d", 5), GetOp("a")>>, <<ClearOp>>}

\* a lock that admits every thread at any time
may_acquire_always(lock, t) == TRUE

\* the lock admits a thread when no thread holds it
may_acquire(lock, t) == lock = 0

\* the mapping after the mutation m of the mapping data
mutated(data, m) ==
  IF m.op = "clear" THEN <<>> ELSE context_set(data, m.key, m.value)

\* get(key): the value bound to the key, or the default when none is
context_get(data, key) ==
  IF key \in DOMAIN data THEN [found |-> TRUE, value |-> data[key]]
  ELSE [found |-> FALSE, value |-> 0]

ThNone ==
  [progs |-> <<>>, pc |-> <<>>, inside |-> <<>>, seen |-> <<>>,
   lock |-> 0, data |-> <<>>, got |-> <<>>]

ThInit == th = ThNone

notth == <<callvars, fieldvars, mw, td, cy, pl, sq, cc, cp, pf, pr, nh, pi, fl, it, ac>>

ThDone == \A t \in 1..Len(th.progs) : th.pc[t] > Len(th.progs[t])

\* the environment makes a store and starts the threads on it
ThStart(progs) ==
  /\ ThDone
  /\ th' = [ThNone EXCEPT !.progs = progs,
                          !.pc = [t \in 1..Len(progs) |-> 1],
                          !.inside = [t \in 1..Len(progs) |-> FALSE],
                          !.seen = [t \in 1..Len(progs) |-> <<>>]]
  /\ UNCHANGED notth

ThOp(t) == th.progs[t][th.pc[t]]

\* thread t enters its next mutation: it takes the lock and reads the mapping
ThEnter(t) ==
  /\ t \in 1..Len(th.progs)
  /\ th.pc[t] <= Len(th.progs[t])
  /\ ~th.inside[t]
  /\ ThOp(t).op \in {"set", "clear"}
  /\ may_acquire(th.lock, t)
  /\ th' = [th EXCEPT !.lock = t, !.inside[t] = TRUE, !.seen[t] = th.data]
  /\ UNCHANGED notth

\* thread t writes the changed mapping back and releases the lock
ThLeave(t) ==
  /\ t \in 1..Len(th.progs)
  /\ th.inside[t]
  /\ th' = [th EXCEPT !.data = mutated(th.seen[t], ThOp(t)),
                      !.lock = 0, !.inside[t] = FALSE, !.pc[t] = @ + 1]
  /\ UNCHANGED notth

\* thread t reads a key
ThGet(t) ==
  /\ t \in 1..Len(th.progs)
  /\ th.pc[t] <= Len(th.progs[t])
  /\ ThOp(t).op = "get"
  /\ th' = [th EXCEPT !.got = Append(@, [key |-> ThOp(t).key,
                                         ret |-> context_get(th.data, ThOp(t).key)]),
                      !.pc[t] = @ + 1]
  /\ UNCHANGED notth

ThNext ==
  \/ \E progs \in SeqsUpTo(Programs, MaxThreads) \ {<<>>} : ThStart(progs)
  \/ \E t \in 1..MaxThreads : ThEnter(t)
  \/ \E t \in 1..MaxThreads : ThLeave(t)
  \/ \E t \in 1..MaxThreads : ThGet(t)

\* ============================== the context store across processes
\* SimpleMemoryContext handed to worker processes
\* (tests/test_context.py, lines 38-84).  A worker process receives its own
\* copy of the store object.  A store in its default mode keeps its mapping
\* in the object, so a worker's set changes the worker's copy; after
\* make_process_safe() the mapping is kept by a manager process that every
\* copy refers to, and values cross the process boundary serialised.
IntVal(n) == [type |-> "int", v |-> n]
XVal == [type |-> "X", v |-> 10]    \* an instance of X, whose x is 10

\* what the workers of the two tests run
ProcPrograms ==
  {<<SetOp("a", IntVal(1)), SetOp("b", IntVal(2)), SetOp("c", IntVal(3)),
     SetOp("d", XVal)>>,
   <<SetOp("a", IntVal(1)), SetOp("b", IntVal(2)), SetOp("c", IntVal(3))>>}

\* a value serialised for the manager, and read back from it
dumps(value) == <<value.type, value.v>>
loads(bytes) == [type |-> bytes[1], v |-> bytes[2]]

\* a store whose workers always write to their own copy
shared_never(safe) == FALSE

\* whether a set made through a copy of the store reaches the manager
shared(safe) == safe

PrNone ==
  [phase |-> "none", safe |-> FALSE, progs |-> <<>>, pc |-> <<>>,
   manager |-> <<>>, own |-> <<>>, copies |-> <<>>]

PrInit == pr = PrNone

notpr == <<callvars, fieldvars, mw, td, cy, pl, sq, cc, cp, pf, th, nh, pi, fl, it, ac>>

PrDone == \A p \in 1..Len(pr.progs) : pr.pc[p] > Len(pr.progs[p])

\* context = SimpleMemoryContext()
PrNew ==
  /\ pr.phase \in {"none", "started"} /\ PrDone
  /\ pr' = [PrNone EXCEPT !.phase = "new"]
  /\ UNCHANGED notpr

\* context.make_process_safe()
PrMakeSafe ==
  /\ pr.phase = "new" /\ ~pr.safe
  /\ pr' = [pr EXCEPT !.safe = TRUE]
  /\ UNCHANGED notpr

\* the worker processes are started, each with a copy of the store
PrStart(progs) ==
  /\ pr.phase = "new"
  /\ pr' = [pr EXCEPT !.phase = "started", !.progs = progs,
                      !.pc = [p \in 1..Len(progs) |-> 1],
                      !.copies = [p \in 1..Len(progs) |-> pr.own]]
  /\ UNCHANGED notpr

\* worker p makes its next set
PrSet(p) ==
  /\ pr.phase = "started"
  /\ p \in 1..Len(pr.progs)
  /\ pr.pc[p] <= Len(pr.progs[p])
  /\ LET m == pr.progs[p][pr.pc[p]]
     IN  IF shared(pr.safe)
         THEN pr' = [pr EXCEPT !.manager = context_set(@, m.key, dumps(m.value)),
                               !.pc[p] = @ + 1]
         ELSE pr' = [pr EXCEPT !.copies[p] = context_set(@, m.key, m.value),
                               !.pc[p] = @ + 1]
  /\ UNCHANGED notpr

\* get(None) in the parent: the whole mapping
get_all(c) ==
  IF shared(c.safe) THEN [k \in DOMAIN c.manager |-> loads(c.manager[k])]
  ELSE c.own

PrNext ==
  \/ PrNew
  \/ PrMakeSafe
  \/ \E progs \in SeqsUpTo(ProcPrograms, MaxProcs) \ {<<>>} : PrStart(progs)
  \/ \E p \in 1..MaxProcs : PrSet(p)

\* ===================================================== structural hash
\* naivehash()(value).  A value is a scalar, a list, a set or a mapping
\* given by the order its elements were inserted in, a type, or an instance
\* of a type (tests/test_utils.py, lines 341-386).  The digest is modelled
\* by the canonical form the fixed-width digest is taken of.
HashScalars == {0, 1, 2}

HashLists ==
  {[t |-> "list", name |-> "", items |-> q, pairs |-> <<>>] :
     q \in {<<>>, <<1>>, <<1, 2>>, <<2, 1>>}}

HashSets ==
  {[t |-> "set", name |-> "", items |-> q, pairs |-> <<>>] :
     q \in {<<>>, <<1>>, <<1, 2>>, <<2, 1>>}}

HashDicts ==
  {[t |-> "dict", name |-> "", items |-> <<>>, pairs |-> q] :
     q \in {<<>>, <<<<1, 2>>>>, <<<<1, 2>>, <<2, 0>>>>, <<<<2, 0>>, <<1, 2>>>>}}

\* the types A and B, and the instances A(1, 2), B(1, 2), A(10, 11): the
\* pairs are the attributes a, y of the type and a, b of the instance
HashTypes ==
  {[t |-> "type", name |-> n, items |-> <<>>, pairs |-> <<<<"a", 10>>, <<"y", 11>>>>] :
     n \in {"A", "B"}}

HashInsts ==
  {[t |-> "inst", name |-> n, items |-> <<>>, pairs |-> <<<<"a", ab[1]>>, <<"b", ab[2]>>>>] :
     n \in {"A", "B"}, ab \in {<<1, 2>>, <<10, 11>>}}

HashInts ==
  {[t |-> "int", name |-> "", items |-> <<n>>, pairs |-> <<>>] : n \in HashScalars}

HashValues ==
  HashInts \cup HashLists \cup HashSets \cup HashDicts
    \cup HashTypes \cup HashInsts

\* the elements in the order they were inserted
as_inserted(items) == items

\* the elements in ascending order
RECURSIVE sorted(_)
sorted(items) ==
  IF items = <<>> THEN <<>>
  ELSE LET least == CHOOSE k \in 1..Len(items) :
                      \A j \in 1..Len(items) : items[k] <= items[j]
       IN  <<items[least]>> \o
           sorted([k \in 1..(Len(items) - 1) |->
                     IF k < least THEN items[k] ELSE items[k + 1]])

\* the key/value pairs in ascending order of the key
RECURSIVE sorted_pairs(_)
sorted_pairs(pairs) ==
  IF pairs = <<>> THEN <<>>
  ELSE LET least == CHOOSE k \in 1..Len(pairs) :
                      \A j \in 1..Len(pairs) : pairs[k][1] <= pairs[j][1]
       IN  <<pairs[least]>> \o
           sorted_pairs([k \in 1..(Len(pairs) - 1) |->
                           IF k < least THEN pairs[k] ELSE pairs[k + 1]])

\* the canonical form of a value: its kind, its name when it is a type or
\* an instance, and its content, ordered as inserted for a list and by
\* element or key for a set or a mapping
naivehash(value) ==
  [t |-> value.t,
   name |-> value.name,
   items |-> IF value.t = "set" THEN sorted(value.items) ELSE value.items,
   pairs |-> IF value.t = "dict" THEN sorted_pairs(value.pairs) ELSE value.pairs]

NhNone == [phase |-> "none", x |-> None, y |-> None, dx |-> None,
           dy |-> None, again |-> None]

NhInit == nh = NhNone

notnh == <<callvars, fieldvars, mw, td, cy, pl, sq, cc, cp, pf, th, pr, pi, fl, it, ac>>

\* two values are hashed, the first one twice
NhHash(x, y) ==
  /\ nh' = [phase |-> "done", x |-> x, y |-> y, dx |-> naivehash(x),
            dy |-> naivehash(y), again |-> naivehash(x)]
  /\ UNCHANGED notnh

NhNext == \E x \in HashValues : \E y \in HashValues : NhHash(x, y)



\* ============================================ pipeline initialisation
\* Pipeline.__init__ and the assignments the subclass's initialize() makes
\* (finestflow/pipeline.py, lines 28-102).  Every value assigned is a step.
RESERVED_PIPELINE_KEYWORDS == {"Config", "config", "initialize", "run", "last_run"}

AssignNames ==
  {"a", "b", "c", "Config", "config", "initialize", "run", "last_run",
   "_ff_x", "_ff_nodes", "_ff_init_called", "_ff_initializing"}

starts_with_ff(name) ==
  name \in {"_ff_x", "_ff_nodes", "_ff_init_called", "_ff_initializing"}

InSeq(x, q) == \E k \in 1..Len(q) : q[k] = x

\* __setattr__ (lines 54-102) on an instance with the given flags and
\* registered names: the error raised, or None, and the names afterwards
pipeline_setattr(init_called, initializing, nodes, name) ==
  IF name \in {"_ff_init_called", "_ff_initializing"}
  THEN [err |-> None, nodes |-> nodes, stored |-> TRUE]
  ELSE IF ~init_called
  THEN [err |-> AttributeError, nodes |-> nodes, stored |-> FALSE]
  ELSE IF initializing
  THEN IF \/ name \in RESERVED_PIPELINE_KEYWORDS
          \/ starts_with_ff(name)
          \/ InSeq(name, nodes)
       THEN [err |-> AttributeError, nodes |-> nodes, stored |-> FALSE]
       ELSE [err |-> None, nodes |-> Append(nodes, name), stored |-> TRUE]
  ELSE [err |-> None, nodes |-> nodes, stored |-> TRUE]

PiNone ==
  [phase |-> "none", init_called |-> FALSE, initializing |-> FALSE,
   nodes |-> <<>>, last |-> [name |-> "", err |-> None, before |-> <<>>,
                             during |-> FALSE]]

PiInit == pi = PiNone

notpi == <<callvars, fieldvars, mw, td, cy, pl, sq, cc, cp, pf, th, pr, nh, fl, it, ac>>

\* __init__ up to the call of initialize() (lines 36-43, 104-107): both
\* flags are set, _ff_nodes is empty
PiConstruct ==
  /\ pi.phase \in {"none", "done"}
  /\ pi' = [PiNone EXCEPT !.phase = "initialize", !.init_called = TRUE,
                          !.initializing = TRUE]
  /\ UNCHANGED notpi

\* initialize() assigns a step to self.<name>; an error ends __init__
PiAssign(name) ==
  /\ pi.phase = "initialize"
  /\ LET r == pipeline_setattr(pi.init_called, pi.initializing, pi.nodes, name)
     IN  pi' = [pi EXCEPT
                  !.nodes = r.nodes,
                  !.phase = IF r.err # None THEN "done" ELSE @,
                  !.last = [name |-> name, err |-> r.err, before |-> pi.nodes,
                            during |-> TRUE]]
  /\ UNCHANGED notpi

\* initialize() returns and _ff_initialize clears the flag (line 108)
PiFinish ==
  /\ pi.phase = "initialize"
  /\ pi' = [pi EXCEPT !.phase = "done", !.initializing = FALSE,
                      !.last.during = FALSE]
  /\ UNCHANGED notpi

PiNext ==
  \/ PiConstruct
  \/ \E name \in AssignNames : PiAssign(name)
  \/ PiFinish

\* ================================================ flagged value fields
\* One instance of a class that declares the value fields
\*   t : int = Param(default=..., strict_type=True)
\*   r : int = Param(default=..., refresh_on_set=True)
\*   p : int = Param(default=...)
\* and does not override _initialize_nodes.
FlagFields == {"t", "r", "p"}

\* Param._strict_type, Param._refresh_on_set
strict_type(f) == f = "t"
refresh_on_set(f) == f = "r"

\* the values written: each has a runtime type
FlagTypes == {"int", "str"}
FlagValues == [type : FlagTypes, v : {"one", "two"}]
FlagAbsent == [type |-> "none", v |-> "absent"]
FlagDefault == [type |-> "int", v |-> "default"]

\* the class's annotation of every declared field
annotation(f) == "int"

\* isinstance(value, type)
isinstance(value, type) == value.type = type

NoFlagParams == [f \in FlagFields |-> FlagAbsent]

\* the result of an operation: the value map after it, the error raised,
\* the number of runs of _initialize and the value map each run found
FlagRes(p, err, inits, seen, ret) ==
  [p |-> p, err |-> err, inits |-> inits, seen |-> seen, ret |-> ret]

\* a write that would run _initialize before it stores the value
flag_store_late(p, f, v) ==
  FlagRes([p EXCEPT ![f] = v], None,
          IF refresh_on_set(f) THEN 1 ELSE 0, p, FlagAbsent)

\* lines 187-189: obj.__ff_params__[name] = value, then obj._initialize()
\* when the field is refresh_on_set
flag_store(p, f, v) ==
  FlagRes([p EXCEPT ![f] = v], None,
          IF refresh_on_set(f) THEN 1 ELSE 0, [p EXCEPT ![f] = v], FlagAbsent)

\* Param.__set__ (lines 174-189) of a field without depends_on; annotated
\* tells whether the instance's own __dict__ holds "__annotations__"
flag_set(annotated, p, f, v) ==
  IF strict_type(f)
  THEN IF ~annotated
       THEN FlagRes(p, "KeyError", 0, p, FlagAbsent)
       ELSE IF ~isinstance(v, annotation(f))
            THEN FlagRes(p, "ValueError", 0, p, FlagAbsent)
            ELSE flag_store(p, f, v)
  ELSE flag_store(p, f, v)

\* Param.__delete__ (lines 191-195)
flag_delete(p, f) ==
  IF p[f] # FlagAbsent
  THEN FlagRes([p EXCEPT ![f] = FlagAbsent], None,
               IF refresh_on_set(f) THEN 1 ELSE 0,
               [p EXCEPT ![f] = FlagAbsent], FlagAbsent)
  ELSE FlagRes(p, None, 0, p, FlagAbsent)

\* Param.__get__ (lines 129-143) of a cached field with a static default
flag_get(p, f) ==
  IF p[f] = FlagAbsent
  THEN FlagRes([p EXCEPT ![f] = FlagDefault], None, 0, p, FlagDefault)
  ELSE FlagRes(p, None, 0, p, p[f])

FlNone ==
  [annotated |-> FALSE, params |-> NoFlagParams,
   last |-> [op |-> "none", f |-> "", value |-> FlagAbsent, err |-> None,
             inits |-> 0, seen |-> NoFlagParams, before |-> NoFlagParams,
             ret |-> FlagAbsent, annotated |-> FALSE]]

FlInit == fl = FlNone

notfl == <<callvars, fieldvars, mw, td, cy, pl, sq, cc, cp, pf, th, pr, nh, pi, it, ac>>

FlDid(op, f, v, r) ==
  fl' = [fl EXCEPT
           !.params = r.p,
           !.last = [op |-> op, f |-> f, value |-> v, err |-> r.err,
                     inits |-> r.inits, seen |-> r.seen, before |-> fl.params,
                     ret |-> r.ret, annotated |-> fl.annotated]]

\* the environment assigns obj.<f> = v
FlWrite(f, v) ==
  /\ FlDid("write", f, v, flag_set(fl.annotated, fl.params, f, v))
  /\ UNCHANGED notfl

\* the environment executes del obj.<f>
FlDelete(f) ==
  /\ FlDid("delete", f, FlagAbsent, flag_delete(fl.params, f))
  /\ UNCHANGED notfl

\* the environment reads obj.<f>
FlRead(f) ==
  /\ FlDid("read", f, FlagAbsent, flag_get(fl.params, f))
  /\ UNCHANGED notfl

\* the environment assigns obj.__annotations__ = dict(type(obj).__annotations__):
\* the name starts with an underscore, so Composable.__setattr__ (line 619)
\* stores it in the instance's own __dict__
FlAnnotate ==
  /\ ~fl.annotated
  /\ fl' = [fl EXCEPT !.annotated = TRUE,
                      !.last = [FlNone.last EXCEPT !.op = "annotate",
                                                   !.before = fl.params,
                                                   !.annotated = fl.annotated]]
  /\ UNCHANGED notfl

FlNext ==
  \/ \E f \in FlagFields : \E v \in FlagValues : FlWrite(f, v)
  \/ \E f \in FlagFields : FlDelete(f)
  \/ \E f \in FlagFields : FlRead(f)
  \/ FlAnnotate

\* ======================================================== introspection
\* describe() of live state and missing() on one instance.  Its class
\* declares or inherits the value fields a, b and the sub-unit fields m, n,
\* none with a dependency list; a field either resolves when read or raises
\* (a value field without default, a sub-unit field left unset).  A sub-unit
\* that resolves is a composable without fields.
IntroParams == <<"a", "b">>
IntroNodes == <<"m", "n">>
IntroNames == {"a", "b", "m", "n"}

\* own: the field is in the class's own __dict__, else in a base class's
\* resolves: reading the field returns a value
IntroConfigs == [IntroNames -> [own : BOOLEAN, resolves : BOOLEAN]]

\* self.__class__.__dict__[attr] (lines 855, 863): the class's own
\* dictionary has no entry for a field a base class declares
class_dict_has(c, attr) == c[attr].own

\* Composable.params (lines 608-616) and the loops of _describe_inst (lines
\* 791-803): one entry per name of _ff_params and _ff_nodes, None for one
\* whose read fails
describe_inst(c) ==
  [err |-> None,
   desc |-> [f \in IntroNames |-> IF c[f].resolves THEN "value" ELSE "null"]]

\* the first loop of missing (lines 854-860) over names[1..k]
RECURSIVE missing_scan(_, _, _)
missing_scan(c, names, k) ==
  IF k = 0 THEN [err |-> None, found |-> <<>>]
  ELSE LET r == missing_scan(c, names, k - 1)
       IN  IF r.err # None THEN r
           ELSE IF ~class_dict_has(c, names[k])
                THEN [err |-> "KeyError", found |-> r.found]
                ELSE IF c[names[k]].resolves THEN r
                     ELSE [err |-> None, found |-> Append(r.found, names[k])]

\* Composable.missing (lines 851-875); the second loop runs only when the
\* first did not raise
missing(c) ==
  LET ps == missing_scan(c, IntroParams, Len(IntroParams))
      ns == missing_scan(c, IntroNodes, Len(IntroNodes))
  IN  IF ps.err # None
      THEN [err |-> ps.err, params |-> <<>>, nodes |-> <<>>]
      ELSE IF ns.err # None
           THEN [err |-> ns.err, params |-> <<>>, nodes |-> <<>>]
           ELSE [err |-> None, params |-> ps.found, nodes |-> ns.found]

NoDesc == [f \in IntroNames |-> "-"]

ItNone ==
  [phase |-> "none", cfg |-> [f \in IntroNames |-> [own |-> TRUE, resolves |-> TRUE]],
   err |-> None, desc |-> NoDesc, params |-> <<>>, nodes |-> <<>>]

ItInit == it = ItNone

notit == <<callvars, fieldvars, mw, td, cy, pl, sq, cc, cp, pf, th, pr, nh, pi, fl, ac>>

\* the environment defines the class and constructs the instance
ItConstruct(c) ==
  /\ it' = [ItNone EXCEPT !.phase = "built", !.cfg = c]
  /\ UNCHANGED notit

\* obj.describe()
ItDescribe ==
  /\ it.phase # "none"
  /\ LET r == describe_inst(it.cfg)
     IN  it' = [ItNone EXCEPT !.phase = "described", !.cfg = it.cfg,
                              !.err = r.err, !.desc = r.desc]
  /\ UNCHANGED notit

\* obj.missing()
ItMissing ==
  /\ it.phase # "none"
  /\ LET r == missing(it.cfg)
     IN  it' = [ItNone EXCEPT !.phase = "reported", !.cfg = it.cfg,
                              !.err = r.err, !.params = r.params,
                              !.nodes = r.nodes]
  /\ UNCHANGED notit

ItNext ==
  \/ \E c \in IntroConfigs : ItConstruct(c)
  \/ ItDescribe
  \/ ItMissing

\* ================================================ overlapping calls
\* Calls of Composable.__call__ (lines 536-579) on one root instance that
\* overlap: the computation calls the instance again before it returns, or
\* several threads call it.  Each call is at one of
\*   "out"    not started, or finished
\*   "marked" line 538 done
\*   "run"    lines 540-561 done, inside the try
\*   "exc"    the computation raised, the finally is still to run
ActiveCalls == 1..MaxActive

RcNone ==
  [pc |-> [k \in ActiveCalls |-> "out"], in_run |-> FALSE, run_id |-> "",
   temp |-> Unset]

RcInit == ac = RcNone

notac == <<callvars, fieldvars, mw, td, cy, pl, sq, cc, cp, pf, th, pr, nh, pi, fl, it>>

\* line 538: self._ff_in_run = True
mark_in_run(r) == [r EXCEPT !.in_run = TRUE]

\* lines 543-553 of a call given a one-shot override when ov is true: the
\* override is kept, and the instance, whose prefix is empty, records its
\* run identifier
setup_root(r, ov) ==
  [r EXCEPT !.temp = IF ov THEN TempVal ELSE @, !.run_id = config_run_id("cP")]

\* the finally block (lines 571-577)
finally_reset(r) == [r EXCEPT !.temp = Unset, !.in_run = FALSE, !.run_id = ""]

\* call k starts
RcMark(k) ==
  /\ ac.pc[k] = "out"
  /\ ac' = [mark_in_run(ac) EXCEPT !.pc[k] = "marked"]
  /\ UNCHANGED notac

\* call k reaches its computation
RcSetup(k, ov) ==
  /\ ac.pc[k] = "marked"
  /\ ac' = [setup_root(ac, ov) EXCEPT !.pc[k] = "run"]
  /\ UNCHANGED notac

\* the computation of call k raises
RcRaise(k) ==
  /\ ac.pc[k] = "run"
  /\ ac' = [ac EXCEPT !.pc[k] = "exc"]
  /\ UNCHANGED notac

\* call k ends: its computation returned or raised, the finally runs
RcFinally(k) ==
  /\ ac.pc[k] \in {"run", "exc"}
  /\ ac' = [finally_reset(ac) EXCEPT !.pc[k] = "out"]
  /\ UNCHANGED notac

RcNext ==
  \/ \E k \in ActiveCalls : RcMark(k)
  \/ \E k \in ActiveCalls : \E ov \in BOOLEAN : RcSetup(k, ov)
  \/ \E k \in ActiveCalls : RcRaise(k)
  \/ \E k \in ActiveCalls : RcFinally(k)

\* ------------------------------------------------------ specifications
Init ==
  /\ CallInit
  /\ FieldInit
  /\ MwInit
  /\ TdInit
  /\ CyInit
  /\ PlInit
  /\ SqInit
  /\ CcInit
  /\ CpInit
  /\ PfInit
  /\ ThInit
  /\ PrInit
  /\ NhInit
  /\ PiInit
  /\ FlInit
  /\ ItInit
  /\ RcInit

\* overlapping calls on one instance
SpecOverlap == Init /\ [][RcNext]_vars

\* descriptions and missing-field reports of an instance
SpecIntro == Init /\ [][ItNext]_vars

\* writes, deletes and reads of the flagged value fields
SpecFlags == Init /\ [][FlNext]_vars

\* constructions of a pipeline whose initialize() assigns steps
SpecSteps == Init /\ [][PiNext]_vars

\* calls of the root pipeline with routing keywords
SpecRoute == Init /\ [][PlRouteNext]_vars

\* structural digests of pairs of values
SpecHash == Init /\ [][NhNext]_vars

\* worker processes on one context store
SpecProcs == Init /\ [][PrNext]_vars

\* threads of one process on one context store
SpecThreads == Init /\ [][ThNext]_vars

\* fan-outs of one sub-unit over a list of tasks
SpecFan == Init /\ [][PfNext]_vars

\* compositions of three units by the two operators
SpecCompose == Init /\ [][CpNext]_vars

\* calls on a concurrent composite of units
SpecConc == Init /\ [][CcNext]_vars

\* calls on a sequential composite of units
SpecSeq == Init /\ [][SqNext]_vars

\* calls on a tree of pipelines
SpecPipe == Init /\ [][PlNext]_vars

\* traversals of a composition graph, cyclic or not
SpecCycle == Init /\ [][CyNext]_vars

\* definitions of a type with one declared name, and its first use
SpecDef == Init /\ [][TdNext]_vars

\* calls on an instance with a declared middleware list
SpecMw == Init /\ [][MwNext]_vars

\* calls of a tree of instances
Spec == Init /\ [][Next]_vars

\* calls of the tree with persisted run overrides
SpecRun == Init /\ [][RunNext]_vars

\* reads, writes and deletes of the fields without a dependency list
SpecPlain == Init /\ [][PlainNext]_vars

\* reads, writes and deletes of the field with two dependencies and of
\* those dependencies
SpecTwoDep == Init /\ [][TwoDepNext]_vars

\* reads, writes and deletes of the computed fields and their dependencies
SpecDep == Init /\ [][DepNext]_vars

\* reads, writes and deletes of the other declared fields
SpecField == Init /\ [][FieldNext]_vars


\* =========================================================== the claims
\* Idle: the run-state a call leaves behind
Idle(x) ==
  /\ ~x.in_run
  /\ x.prefix = "" /\ x.name = "" /\ x.run_id = ""
  /\ x.called = NoCalls
  /\ x.temp = NoKwargs

\* C1: when a call on an instance has just ended, by returning or by a failure
\* leaving it, that instance is Idle: not in run, no prefix, name or run
\* identifier, no child counters, no one-shot overrides.
C1_IdleAfterEveryCall == fin # None => Idle(o[fin])

\* C2: while an error raised by a computation travels up, and when the
\* top-level caller receives it, it is the error that was raised; the calls
\* left so far are exactly the innermost ones, cleaned up innermost first, and
\* each of their instances is Idle.
C2_SameErrorAfterCleanup ==
  (raised.err # None /\ (exc # None \/ (fin # None /\ stack = <<>>))) =>
    /\ (IF exc # None THEN exc ELSE outcome.err) = raised.err
    /\ Len(stack) + Len(raised.cleaned) = Len(raised.insts)
    /\ \A k \in 1..Len(raised.cleaned) :
         /\ raised.cleaned[k] = raised.insts[Len(raised.insts) + 1 - k]
         /\ Idle(o[raised.cleaned[k]])
    /\ (stack = <<>> => outcome.kind = "error")

\* C2 witness: an error raised two calls deep has reached the top-level caller
C2_Witness ==
  /\ stack = <<>> /\ fin # None
  /\ raised.err \in BodyErr
  /\ Len(raised.insts) >= 2
  /\ Len(raised.cleaned) = Len(raised.insts)
  /\ outcome.err = raised.err

\* C3: a read of a field with a dependency list that follows an earlier read
\* of it invokes the computation function once and returns its result when a
\* dependency's identity differs from the one at the earlier read; otherwise
\* it invokes nothing and returns what the earlier read returned.
C3_RecomputeOnlyOnChange ==
  (last.op = "read" /\ last.f \in Computed /\ last.hadprev) =>
    IF last.changed
    THEN last.err = None /\ last.calls = 1 /\ last.ret = last.made
    ELSE last.err = None /\ last.calls = 0 /\ last.ret = last.prevret

\* C4: every read of an uncached field with a computation function invokes
\* that function exactly once and returns what that invocation made, whatever
\* was stored before.
C4_UncachedComputesEveryRead ==
  (last.op = "read" /\ no_cache(last.f) /\ has_callback(last.f)) =>
    /\ last.err = None
    /\ last.calls = 1
    /\ last.made # Absent
    /\ last.ret = last.made

\* C4 witness: an uncached field that held a value was read, and the read
\* returned a newly computed value instead of the stored one
C4_Witness ==
  /\ last.op = "read" /\ no_cache(last.f)
  /\ last.before # Absent
  /\ last.calls = 1
  /\ last.ret = last.made
  /\ last.ret # last.before

\* C5: an assignment to a field with a dependency list ends in an error and
\* leaves the stored values and the recorded dependency ids as they were.
C5_ComputedRejectsWrite ==
  (last.op = "write" /\ last.f \in Computed) =>
    last.err # None /\ last.same

\* C6: a read of a sub-unit field that returns a value returns a composable:
\* a composable instance or a ComposableProxy around a plain callable.
C6_ReadGivesComposable ==
  (last.op = "read" /\ last.f \in NodeFields /\ last.err = None) =>
    last.ret.kind \in {"comp", "proxy"}

\* C11: the computation of every active call was given, for each key, the
\* one-shot override when the instance has one, else the persisted override
\* when it has one, else nothing.
C11_OneShotWins ==
  \A k \in 1..Len(stack) : \A key \in Keys :
    stack[k].kwargs[key] =
      IF o[stack[k].inst].temp[key] # Unset THEN TempVal
      ELSE IF o[stack[k].inst].run[key] # Unset THEN KeepVal
      ELSE Unset

\* C11 witness: a call is active on an instance that holds both a one-shot
\* and a persisted override of the same key, and was given the one-shot value
C11_Witness ==
  \E k \in 1..Len(stack) : \E key \in Keys :
    /\ o[stack[k].inst].temp[key] = TempVal
    /\ o[stack[k].inst].run[key] = KeepVal
    /\ stack[k].kwargs[key] = TempVal

\* C12: once a top-level call has ended no instance of the tree holds a
\* one-shot override any more; stated for the calls that returned normally
\* (a call that fails before its try block is the case of C1).
C12_OneShotOnlyThatCall ==
  (stack = <<>> /\ fin # None /\ outcome.kind = "ok") =>
    \A i \in Inst : o[i].temp = NoKwargs

\* the instances held in a sub-unit field of some instance
Children ==
  {o[i].nodes[f] : i \in Inst, f \in FieldNames} \ {None}

\* C13: once a top-level call has ended, every instance that is a sub-unit
\* of the tree, invoked in the call or only read, has an empty prefix, an
\* empty assigned name and a false in-run flag.
C13_ChildrenResetAfterCall ==
  (stack = <<>> /\ fin # None) =>
    \A c \in Children :
      o[c].prefix = "" /\ o[c].name = "" /\ ~o[c].in_run

\* the first place of the declared list whose stage does not call its next
\* stage, or one past the end of the list
FirstShort(kinds) ==
  IF \E j \in 1..Len(kinds) : kinds[j] = "short"
  THEN CHOOSE j \in 1..Len(kinds) :
         kinds[j] = "short" /\ \A i \in 1..(j - 1) : kinds[i] = "wrap"
  ELSE Len(kinds) + 1

\* C14: the stages are entered in declared order, m1 first; the computation
\* runs only after every stage was entered and called its next stage; no
\* stage after one that did not call its next stage is entered; the value
\* travels back through the entered stages in reverse order, and the call
\* returns the computation's output or the value of the stage that stopped.
C14_MiddlewareOrder ==
  /\ \A j \in 1..Len(mw.entered) :
       mw.entered[j] = j /\ j <= FirstShort(mw.kinds)
  /\ mw.ran => (FirstShort(mw.kinds) > Len(mw.kinds) /\
                Len(mw.entered) = Len(mw.kinds))
  /\ mw.phase = "done" =>
       /\ Len(mw.left) = Len(mw.entered)
       /\ \A j \in 1..Len(mw.left) :
            mw.left[j] = mw.entered[Len(mw.entered) + 1 - j]
       /\ IF FirstShort(mw.kinds) > Len(mw.kinds)
          THEN mw.ran /\ mw.val = RunOutput
          ELSE /\ ~mw.ran
               /\ Len(mw.entered) = FirstShort(mw.kinds)
               /\ mw.val = StageValue(FirstShort(mw.kinds))

\* C14 witness: a call has returned in which the second of three stages did
\* not call its next stage
C14_Witness ==
  /\ mw.phase = "done"
  /\ Len(mw.kinds) >= 3
  /\ mw.entered = <<1, 2>>
  /\ mw.left = <<2, 1>>
  /\ ~mw.ran
  /\ mw.val = StageValue(2)

\* the keywords the type or an ancestor declares
AllKeywords(d) == UNION {own_keywords(d, mro(d)[j]) : j \in 1..Len(mro(d))}

\* the declared name is one a field must not have
BadName(d) == starts_with_marker(d.name) \/ d.name \in AllKeywords(d)

C16_BadCombinationFails ==
  (td.phase # "none" /\ td.decl.dep /\ (~td.decl.cb \/ td.decl.nc)) =>
    td.err # None

\* C17: a call and a structural description of a cyclic composition graph
\* both end with a RecursionError at the caller, never with a result.
C17_CycleEndsInRecursionError ==
  (cy.phase = "done" /\ cy.cyclic) => cy.out = RecursionError

\* the name the claim expects for invocation number idx (from 0) of field f
ExpectedName(f, idx) ==
  IF idx = 0 THEN f ELSE f \o "[" \o ToString(idx) \o "]"

\* C7: within one top-level call, the invocations a parent makes of one
\* sub-unit field, each through a fresh read of the field, are stamped name,
\* name[1], name[2], ... in call order.
C7_NamesInCallOrder ==
  \A k \in 1..Len(log) :
    log[k].byRead => log[k].name = ExpectedName(log[k].field, log[k].idx)

\* C8: within one top-level call no two invocations, the root included, are
\* assigned the same absolute path.
C8_DistinctPaths ==
  \A j, k \in 1..Len(log) : j # k => log[j].path # log[k].path

\* C9: every call active in a top-level call uses the context handle and the
\* config handle of the root that was invoked.
C9_SharedHandles ==
  \A k \in 1..Len(stack) :
    /\ o[stack[k].inst].ctx = o[stack[1].inst].ctx
    /\ o[stack[k].inst].cfg = o[stack[1].inst].cfg

\* C10: when a root call reaches its computation the store holds its run_id
\* and nothing from before; a call made by a parent during the parent's
\* active call never clears the store and never writes run_id.
C10_OnlyRootClears ==
  /\ (Len(stack) = 1 /\ Len(log) = 1 /\ stack[1].ref = None /\ exc = None) =>
       /\ log[1].cleared
       /\ o[stack[1].inst].run_id # ""
       /\ store[o[stack[1].inst].ctx] =
            [run_id |-> o[stack[1].inst].run_id, scopes |-> {log[1].path}]
  /\ \A k \in 2..Len(log) : ~log[k].cleared

FolderPath(parent, name) ==
  IF parent = "." THEN "." \o name ELSE parent \o "." \o name

\* the entry of the call that made invocation k: the last one before it that
\* is one level up
ParentEntry(k) ==
  log[CHOOSE j \in 1..(k - 1) :
        /\ log[j].depth = log[k].depth - 1
        /\ \A m \in (j + 1)..(k - 1) : log[m].depth # log[k].depth - 1]

\* C19: absolute paths are folder-like at every depth: the absolute path of
\* every invoked node is its parent's absolute path followed by exactly one
\* separator and the node's assigned name.
C19_FolderLikePaths ==
  \A k \in 1..Len(log) :
    log[k].depth > 0 =>
      log[k].path = FolderPath(ParentEntry(k).path, log[k].name)

\* the value after the first k units of funcs, each applied to the output
\* of the one before, starting from y
RECURSIVE Through(_, _, _)
Through(funcs, k, y) ==
  IF k = 0 THEN y ELSE unit_run(funcs[k], Through(funcs, k - 1, y))

\* C20: a call of a sequential composite of u1..un invokes the units
\* strictly left to right, gives each unit the output of the one before as
\* its sole positional argument (the first one the composite's argument),
\* and returns the last unit's output; IncrementBy(x=10) >> DecrementBy(x=20)
\* >> MultiplyBy(x=3) called with 1 returns 27.
C20_SequentialLeftToRight ==
  sq.phase = "done" =>
    /\ Len(sq.calls) = Len(sq.funcs)
    /\ \A k \in 1..Len(sq.calls) :
         /\ sq.calls[k].unit = k
         /\ sq.calls[k].args =
              <<IF k = 1 THEN sq.input ELSE sq.calls[k - 1].output>>
         /\ sq.calls[k].output = Through(sq.funcs, k, sq.input)
    /\ sq.out = sq.calls[Len(sq.calls)].output
    /\ ( /\ sq.funcs = <<[kind |-> "IncrementBy", x |-> 10],
                         [kind |-> "DecrementBy", x |-> 20],
                         [kind |-> "MultiplyBy", x |-> 3]>>
         /\ sq.input = 1 ) => sq.out = 27

\* the composite of the example has been called with 1 and has returned,
\* its second unit having been given 11 and having returned 9
C20_Witness ==
  /\ sq.phase = "done"
  /\ sq.funcs = <<[kind |-> "IncrementBy", x |-> 10],
                  [kind |-> "DecrementBy", x |-> 20],
                  [kind |-> "MultiplyBy", x |-> 3]>>
  /\ sq.input = 1
  /\ sq.calls[2].args = <<11>>
  /\ sq.calls[2].output = 9

\* C21: a call of a concurrent composite of u1..un gives every unit the
\* composite's argument and returns the sequence of the units' outputs in
\* declared order, whatever order the units completed in;
\* IncrementBy(x=10) // DecrementBy(x=20) // MultiplyBy(x=3) called with 1
\* returns [11, 19, 3].
C21_ConcurrentDeclaredOrder ==
  cc.phase = "done" =>
    /\ Len(cc.out) = Len(cc.funcs)
    /\ \A k \in 1..Len(cc.funcs) :
         /\ cc.given[k] = cc.input
         /\ cc.out[k] = unit_run(cc.funcs[k], cc.input)
    /\ ( /\ cc.funcs = <<[kind |-> "IncrementBy", x |-> 10],
                         [kind |-> "DecrementBy", x |-> 20],
                         [kind |-> "MultiplyBy", x |-> 3]>>
         /\ cc.input = 1 ) => cc.out = <<11, 19, 3>>

\* the composite of the example has returned after its units completed in
\* the order third, first, second
C21_Witness ==
  /\ cc.phase = "done"
  /\ cc.funcs = <<[kind |-> "IncrementBy", x |-> 10],
                  [kind |-> "DecrementBy", x |-> 20],
                  [kind |-> "MultiplyBy", x |-> 3]>>
  /\ cc.input = 1
  /\ cc.order = <<3, 1, 2>>
  /\ cc.out = <<11, 19, 3>>

\* C22: composition flattens only like with like: (A op B) op C and
\* A op (B op C) are one composite of exactly the three units A, B, C in
\* that order, with the same output on the same input, for the sequential
\* and for the concurrent operator; composing (A op B) with C by the other
\* operator gives a composite of two elements whose first is the composite
\* A op B.
C22_FlattenLikeWithLike ==
  cp.phase # "none" =>
    /\ cp.left.kind = cp.op
    /\ cp.left.funcs = cp.units
    /\ cp.right = cp.left
    /\ cp.mixed.kind = OtherOp(cp.op)
    /\ Len(cp.mixed.funcs) = 2
    /\ cp.mixed.funcs[1] = [kind |-> cp.op, funcs |-> SubSeq(cp.units, 1, 2)]
    /\ cp.mixed.funcs[2] = cp.units[3]
    /\ cp.phase = "done" => cp.outl = cp.outr

\* (IncrementBy(x=10) >> DecrementBy(x=20)) // MultiplyBy(x=3) has been
\* built and called with 1: it returned [9, 3], and the flat sequential
\* composite of the three units returned 27
C22_Witness ==
  /\ cp.phase = "done"
  /\ cp.op = "seq"
  /\ cp.units = <<[kind |-> "IncrementBy", x |-> 10],
                  [kind |-> "DecrementBy", x |-> 20],
                  [kind |-> "MultiplyBy", x |-> 3]>>
  /\ cp.outm = <<9, 3>>
  /\ cp.outl = 27

\* C23: a fan-out of one sub-unit over n task payloads with a pool of p
\* workers returns exactly n results in submission order, whatever order the
\* workers finished in, and after it the context holds one record per task,
\* each under its own entry (name, name[1], ...).
C23_FanOutInSubmissionOrder ==
  pf.phase = "done" =>
    /\ Len(pf.out) = Len(pf.tasks)
    /\ \A k \in 1..Len(pf.tasks) :
         /\ pf.out[k] = unit_run(increment_by, pf.tasks[k])
         /\ task_path(k) \in DOMAIN pf.ctx
         /\ pf.ctx[task_path(k)] = [input |-> pf.tasks[k], output |-> pf.out[k]]
    /\ \A j, k \in 1..Len(pf.tasks) : j # k => task_path(j) # task_path(k)
    /\ Cardinality(DOMAIN pf.ctx) = Len(pf.tasks)

\* three tasks on two workers finished in the order second, third, first;
\* the results came back in submission order and '.increment_by[1]' is
\* recorded
C23_Witness ==
  /\ pf.phase = "done"
  /\ pf.tasks = <<1, 2, 1>>
  /\ pf.pool = 2
  /\ pf.finished = <<2, 3, 1>>
  /\ pf.out = <<2, 3, 2>>
  /\ ".increment_by[1]" \in DOMAIN pf.ctx

\* the values the threads' programs set for key
SetValues(key) ==
  UNION {{th.progs[t][i].value :
            i \in {j \in 1..Len(th.progs[t]) :
                     /\ th.progs[t][j].op = "set"
                     /\ th.progs[t][j].key = key}} : t \in 1..Len(th.progs)}

NoClear ==
  \A t \in 1..Len(th.progs) : \A i \in 1..Len(th.progs[t]) :
    th.progs[t][i].op # "clear"

\* C24: with several threads calling set, get and clear on one store, no
\* two mutations interleave (at most one thread is inside a mutation, and
\* it holds the lock); every value a get returns is one some thread set;
\* and once all threads have finished (none of them clearing), every key a
\* thread set is bound to a value some thread set for it, and no other key
\* is bound.
C24_ThreadSafeStore ==
  /\ \A t, u \in 1..Len(th.progs) : th.inside[t] /\ th.inside[u] => t = u
  /\ \A t \in 1..Len(th.progs) : th.inside[t] => th.lock = t
  /\ \A i \in 1..Len(th.got) :
       th.got[i].ret.found => th.got[i].ret.value \in SetValues(th.got[i].key)
  /\ (th.progs # <<>> /\ ThDone /\ NoClear) =>
       /\ \A key \in {"a", "b", "c", "d"} :
            IF SetValues(key) # {}
            THEN key \in DOMAIN th.data /\ th.data[key] \in SetValues(key)
            ELSE key \notin DOMAIN th.data
       /\ DOMAIN th.data \subseteq {"a", "b", "c", "d"}

\* two threads have finished, one having run the three sets of the test and
\* one the set of d: all four keys are bound
C24_Witness ==
  /\ Len(th.progs) = 2
  /\ ThDone
  /\ NoClear
  /\ DOMAIN th.data = {"a", "b", "c", "d"}
  /\ th.data["a"] = 1 /\ th.data["b"] = 2 /\ th.data["c"] = 3

\* the mapping of everything the workers' programs set
ExpectedAll ==
  LET keys == UNION {{pr.progs[p][i].key : i \in 1..Len(pr.progs[p])} :
                       p \in 1..Len(pr.progs)}
  IN  [k \in keys |->
         CHOOSE v \in UNION {{pr.progs[p][i].value :
                                i \in {j \in 1..Len(pr.progs[p]) :
                                         pr.progs[p][j].key = k}} :
                               p \in 1..Len(pr.progs)} : TRUE]

\* C25: after make_process_safe(), once the worker processes have finished,
\* the parent's get(None) is exactly the mapping of the keys the workers
\* set, each bound to the value set for it, objects included.
C25_ProcessSafeStore ==
  (pr.phase = "started" /\ pr.safe /\ PrDone) => get_all(pr) = ExpectedAll

\* two workers of a process-safe store have finished, one of them having
\* set an object under d
C25_Witness ==
  /\ pr.phase = "started" /\ pr.safe /\ PrDone
  /\ Len(pr.progs) = 2
  /\ DOMAIN get_all(pr) = {"a", "b", "c", "d"}
  /\ get_all(pr)["d"].v = 10
  /\ get_all(pr)["a"] = IntVal(1)

\* the elements of a sequence, as a set
ElemsOf(q) == {q[k] : k \in 1..Len(q)}

PlStarted == Len(pl'.frames) = Len(pl.frames) + 1
PlNewest == pl'.frames[Len(pl'.frames)]

\* what the context must hold under key after a call given value for the
\* routing keyword: the value when it is non-empty, what it held otherwise
RoutedTo(key, called, keyword) ==
  IF keyword \in DOMAIN called /\ called[keyword] # ""
  THEN key \in DOMAIN pl'.ctx /\ pl'.ctx[key] = called[keyword]
  ELSE IF key \in DOMAIN pl.ctx
       THEN key \in DOMAIN pl'.ctx /\ pl'.ctx[key] = pl.ctx[key]
       ELSE key \notin DOMAIN pl'.ctx

\* C27: when Pipeline.__call__ passes to run, none of _ff_from, _ff_to,
\* _ff_from_cache, _ff_name is among the keyword arguments run receives,
\* every other keyword argument is, and each of the first three that was
\* given a non-empty value is in the context as 'from' (with good_to_run
\* false), 'to' and 'cache'; one not given, or given empty, is not written.
C27_RoutingKeywordsStripped ==
  [][PlStarted =>
       /\ DOMAIN PlNewest.kwargs = DOMAIN PlNewest.called \ RoutingKeys
       /\ \A x \in DOMAIN PlNewest.kwargs :
            PlNewest.kwargs[x] = PlNewest.called[x]
       /\ RoutedTo("from", PlNewest.called, "_ff_from")
       /\ RoutedTo("to", PlNewest.called, "_ff_to")
       /\ RoutedTo("cache", PlNewest.called, "_ff_from_cache")
       /\ ("_ff_from" \in DOMAIN PlNewest.called
             /\ PlNewest.called["_ff_from"] # "")
            => ("good_to_run" \in DOMAIN pl'.ctx /\ ~pl'.ctx["good_to_run"])
    ]_vars

\* run of the root is active, called with the three routing keywords, a
\* name and an ordinary keyword
C27_Witness ==
  /\ Len(pl.frames) = 1
  /\ DOMAIN pl.frames[1].called = RoutingKeys \cup {"k"}
  /\ pl.frames[1].called["_ff_to"] = "y"
  /\ pl.frames[1].called["_ff_from_cache"] = ""
  /\ DOMAIN pl.frames[1].kwargs = {"k"}
  /\ "to" \in DOMAIN pl.ctx
  /\ "cache" \notin DOMAIN pl.ctx

\* a step name the claim says is refused, given the names registered so far
BadStepName(name, nodes) ==
  \/ name \in RESERVED_PIPELINE_KEYWORDS
  \/ starts_with_ff(name)
  \/ InSeq(name, nodes)

\* C28: during initialization, assigning a step whose name is a reserved
\* keyword, starts with _ff, or is already registered raises an error and
\* registers nothing; the registered list never holds a reserved name, a
\* name starting with _ff, or a name twice.
C28_BadStepRejected ==
  /\ (pi.last.during /\ BadStepName(pi.last.name, pi.last.before))
       => (pi.last.err # None /\ pi.nodes = pi.last.before)
  /\ \A k \in 1..Len(pi.nodes) :
       /\ pi.nodes[k] \notin RESERVED_PIPELINE_KEYWORDS
       /\ ~starts_with_ff(pi.nodes[k])
       /\ \A j \in 1..Len(pi.nodes) : j # k => pi.nodes[j] # pi.nodes[k]

\* the dependencies of computed field f whose identity now differs from the
\* one the last successful read of f saw
ChangedSince(f) ==
  {t \in Targets(f) : cur_id(ffparams, t) # prev[f].seen[t]}

\* the step is a read of field f
IsRead(f) == last'.op = "read" /\ last'.f = f

\* C29: a read of a computed field that follows a successful read of it,
\* two or more of its dependencies having changed identity in between,
\* invokes the computation function exactly once and leaves the current
\* identity of every declared dependency recorded; and a read that follows a
\* successful read with no dependency changed invokes nothing.
C29_OneRecomputeRecordsAll ==
  [][\A f \in Computed :
       (IsRead(f) /\ prev[f].had) =>
         /\ Cardinality(ChangedSince(f)) >= 2 =>
              /\ last'.err = None
              /\ last'.calls = 1
              /\ last'.ret = last'.made
              /\ \A t \in Targets(f) : ffdepends'[f][t] = cur_id(ffparams', t)
         /\ ChangedSince(f) = {} => last'.calls = 0
    ]_vars

\* c was read after both x and y had changed since its previous read: it
\* was recomputed once and both recorded identities are the current ones
C29_Witness ==
  /\ last.op = "read" /\ last.f = "c" /\ last.hadprev
  /\ last.moved = {"x", "y"}
  /\ last.err = None /\ last.calls = 1
  /\ \A t \in Targets("c") : ffdepends["c"][t] = cur_id(ffparams, t)

\* the dependencies of f that hold, since the last read of f, another object
\* with the content the object before it had at that read
ReplacedByEqual(f) == {t \in prev[f].fresh : cont[t] = prev[f].held[t]}

\* the dependencies of f that hold the object they held at the last read of
\* f, its content changed since
MutatedInPlace(f) ==
  {t \in Targets(f) \ prev[f].fresh : cont[t] # prev[f].held[t]}

\* C30: a read of a computed field that follows a successful read of it
\* recomputes when a dependency holds a distinct object with equal content,
\* and does not recompute when every dependency holds the object it held,
\* whatever was done to the content of that object.
C30_IdentityNotEquality ==
  [][\A f \in Computed :
       (IsRead(f) /\ prev[f].had) =>
         /\ ReplacedByEqual(f) # {} => last'.calls = 1
         /\ prev[f].fresh = {} => last'.calls = 0
    ]_vars

\* the half of C30 about objects changed in place
C30_MutationKeepsCache ==
  [][\A f \in Computed :
       (IsRead(f) /\ prev[f].had /\ prev[f].fresh = {}) => last'.calls = 0
    ]_vars

\* C31: a write to the strict-typed field of a value whose runtime type is the
\* annotated one succeeds and stores the value, so that the next read returns
\* it; a write of a value of another type is rejected with the type-mismatch
\* error (ValueError, line 183) and leaves the stored value as it was.
C31_StrictTypeChecked ==
  (fl.last.op = "write" /\ strict_type(fl.last.f)) =>
    IF isinstance(fl.last.value, annotation(fl.last.f))
    THEN /\ fl.last.err = None
         /\ fl.params[fl.last.f] = fl.last.value
         /\ flag_get(fl.params, fl.last.f).ret = fl.last.value
    ELSE /\ fl.last.err = "ValueError"
         /\ fl.params = fl.last.before

\* the last operation ran _initialize once, and the run found the value map
\* as the operation left it
FlRefreshedOnce == fl.last.inits = 1 /\ fl.last.seen = fl.params

\* C32 as stated: every successful write and every delete of the
\* refresh_on_set field runs _initialize exactly once, after the value map
\* was updated; a write or delete of a field without the flag never runs it.
C32_RefreshOnEveryWriteAndDelete ==
  /\ (fl.last.op = "write" /\ fl.last.err = None) =>
       IF refresh_on_set(fl.last.f) THEN FlRefreshedOnce ELSE fl.last.inits = 0
  /\ fl.last.op = "delete" =>
       IF refresh_on_set(fl.last.f) THEN FlRefreshedOnce ELSE fl.last.inits = 0

\* C32 amended: every successful write of the refresh_on_set field, and every
\* delete of it that removes a stored entry, runs _initialize exactly once,
\* after the value map was updated; a delete of the field while it holds no
\* entry runs nothing, and neither does any write or delete of a field
\* without the flag, nor a write that is rejected.
C32_RefreshOnWriteAndRemoval ==
  /\ (fl.last.op = "write" /\ fl.last.err = None) =>
       IF refresh_on_set(fl.last.f) THEN FlRefreshedOnce ELSE fl.last.inits = 0
  /\ (fl.last.op = "write" /\ fl.last.err # None) => fl.last.inits = 0
  /\ fl.last.op = "delete" =>
       IF refresh_on_set(fl.last.f) /\ fl.last.before[fl.last.f] # FlagAbsent
       THEN FlRefreshedOnce /\ fl.params[fl.last.f] = FlagAbsent
       ELSE fl.last.inits = 0

\* the refresh_on_set field was written over another value, and
\* _initialize ran once on the new value map
C32_Witness ==
  /\ fl.last.op = "write" /\ fl.last.f = "r" /\ fl.last.err = None
  /\ fl.last.before["r"] \in FlagValues
  /\ fl.last.before["r"] # fl.last.value
  /\ fl.params["r"] = fl.last.value
  /\ FlRefreshedOnce

\* the names in a sequence
NamesIn(q) == {q[k] : k \in 1..Len(q)}

\* C33: neither the description of live state nor the missing-field report
\* aborts: the description has an entry for every declared field, own or
\* inherited, null exactly for those that fail to resolve; the report lists
\* exactly the fields that fail to resolve.
C33_IntrospectionNeverAborts ==
  /\ it.phase = "described" =>
       /\ it.err = None
       /\ \A f \in IntroNames :
            it.desc[f] = IF it.cfg[f].resolves THEN "value" ELSE "null"
  /\ it.phase = "reported" =>
       /\ it.err = None
       /\ NamesIn(it.params) = {f \in NamesIn(IntroParams) : ~it.cfg[f].resolves}
       /\ NamesIn(it.nodes) = {f \in NamesIn(IntroNodes) : ~it.cfg[f].resolves}

\* the step is a read of a sub-unit field made between calls
IsIdleRead == stack = <<>> /\ stack' = <<>> /\ ops' = ops + 1

\* C34: a read of a sub-unit field made while no call is active on the parent
\* changes no instance's path prefix, assigned name or context handle and no
\* parent's child-invocation counters.
C34_IdleReadStampsNothing ==
  [][IsIdleRead =>
       \A i \in Inst :
         /\ o'[i].prefix = o[i].prefix
         /\ o'[i].name = o[i].name
         /\ o'[i].ctx = o[i].ctx
         /\ o'[i].called = o[i].called
    ]_vars

\* C35 as stated: a read of a field without dependency list that follows a
\* successful write of v to it, no write or delete of the field in between,
\* returns v, whether the field is cached or not.
C35_ReadReturnsWritten ==
  [][\A f \in PlainFields :
       (IsRead(f) /\ wrote[f] # Absent) =>
         last'.err = None /\ last'.ret = wrote[f]
    ]_vars

\* C35 amended: such a read of a cached field invokes nothing and returns
\* what the write stored, which is v or, for a sub-unit field given a value
\* that is not a composable, the ComposableProxy that wraps v; such a read of
\* an uncached field with a computation function returns a newly computed
\* value.
C35_CachedReadReturnsStored ==
  [][\A f \in PlainFields :
       (IsRead(f) /\ wrote[f] # Absent) =>
         /\ last'.err = None
         /\ IF no_cache(f)
            THEN last'.calls = 1 /\ last'.ret = last'.made
            ELSE /\ last'.calls = 0
                 /\ last'.ret = Stored(f)
                 /\ \/ last'.ret = wrote[f]
                    \/ /\ f \in NodeFields /\ wrote[f].kind = "raw"
                       /\ last'.ret.kind = "proxy"
                       /\ last'.ret.orig = wrote[f].id
    ]_vars

\* the cached sub-unit field was written a composable and then read: the
\* read invoked nothing and returned the written object
C35_Witness ==
  /\ last.op = "read" /\ last.f = "s" /\ last.err = None
  /\ wrote["s"] # Absent /\ wrote["s"].kind = "comp"
  /\ last.ret = wrote["s"]
  /\ last.before = wrote["s"]
  /\ last.calls = 0

\* C36: a read of a field that has a static default or a computation
\* function succeeds in every state reads, writes and deletes lead to: it
\* returns a value, and the field's entry holds that value afterwards.
C36_ReadNeverFails ==
  (last.op = "read" /\ (has_default(last.f) \/ has_callback(last.f))) =>
    /\ last.err = None
    /\ last.ret # Absent
    /\ Stored(last.f) = last.ret

\* C37: while a top-level call is active, no invocation made inside it has
\* cleared the store or written run_id, and the scope every invocation of
\* the call opened is still in the store of the invoked instance.
C37_ClearedAtMostOnce ==
  stack # <<>> =>
    /\ \A k \in 2..Len(log) : ~log[k].cleared
    /\ \A k \in 1..Len(log) :
         log[k].path \in store[o[log[k].inst].ctx].scopes

\* the reads of field f by the call of frame k that an invocation is still
\* to follow: the reference the body holds, when it was read from f and not
\* invoked yet
PendingRead(k, f) ==
  IF stack[k].fresh /\ stack[k].reff = f THEN 1 ELSE 0

\* C38: in every state of an active call, the parent's counter for each
\* sub-unit field is the number of invocations its body made of that field's
\* sub-unit (one more while a read is about to be followed by its
\* invocation), and an invocation that follows its own read of the field is
\* logged under the name of its index among them.
C38_CounterCountsInvocations ==
  /\ \A k \in 1..Len(stack) : \A f \in NodeSet(stack[k].inst) :
       exc = None =>
         o[stack[k].inst].called[f] = stack[k].inv[f] + PendingRead(k, f)
  /\ \A k \in 2..Len(log) :
       log[k].byRead => log[k].name = child_name(log[k].field, log[k].idx)

\* C39: the in-run flag of an instance is true whenever a call on it has
\* marked it and has not finished its cleanup.
C39_InRunWhileActive ==
  (\E k \in ActiveCalls : ac.pc[k] # "out") => ac.in_run

\* the call that has just passed to run was given a non-empty value for the
\* routing keyword
GivenKeyword(keyword) ==
  keyword \in DOMAIN PlNewest.called /\ PlNewest.called[keyword] # ""

\* C40: when a top-level call of the pipeline passes to run, the context
\* holds 'from' and 'good_to_run', 'to' and 'cache' exactly when the call
\* was given _ff_from, _ff_to and _ff_from_cache: nothing an earlier call on
\* the same pipeline supplied is left.
C40_RoutingOfCurrentCallOnly ==
  [][(PlStarted /\ pl.frames = <<>>) =>
       /\ ("from" \in DOMAIN pl'.ctx) = GivenKeyword("_ff_from")
       /\ ("good_to_run" \in DOMAIN pl'.ctx) = GivenKeyword("_ff_from")
       /\ ("to" \in DOMAIN pl'.ctx) = GivenKeyword("_ff_to")
       /\ ("cache" \in DOMAIN pl'.ctx) = GivenKeyword("_ff_from_cache")
    ]_vars

=============================================================================
